---- MODULE Spec2Model ----
(***************************************************************************)
(* wp-modernization-audit: the multi-page aggregation and scoring engine.  *)
(*                                                                         *)
(* runAudit fetches each requested page, keeps the observations of the     *)
(* pages that answered 200, aggregates them, runs the four analyzers on    *)
(* the aggregated observation and hands the classifications to the scorer. *)
(*                                                                         *)
(* Representation:                                                         *)
(*   - a string the code only tests for truthiness and length (title,     *)
(*     meta description) is its length, 0 standing for undefined or "";    *)
(*   - canonicalUrl is TRUE when a non-empty URL is present;               *)
(*   - h1Tags is the number of H1 tags;                                    *)
(*   - an optional object is a sequence of length 0 (undefined/null) or 1; *)
(*   - a quotient the code compares with a threshold is the pair           *)
(*     [num, den], compared by cross-multiplication;                       *)
(*   - CLS is in thousandths (0.1 is 100).                                 *)
(*   - a page's HTML is what collectModernizationData reads from it: a     *)
(*     query-string link, a pretty link, the number of CDN domains;        *)
(*   - a response tells what a second request for the page would answer,  *)
(*     which runAudit never asks for.                                      *)
(***************************************************************************)
EXTENDS Integers, Sequences, FiniteSets, TLC

\* Longest page list of a run.
MaxPages == 3
\* Largest overall score handed to getRating on its own.
MaxScoreArg == 120
\* Longest page list of a run with a PageSpeed API key.
MaxLookupPages == 4
\* Most calls of collectLighthouseData and clearCache made on their own.
MaxLookups == 4
\* Longest sitemap handed to selectTopPages, and largest maxPages.
MaxSitemapUrls == 3

VARIABLES
    config,              \* AuditConfig: pages (paths), psApiKey (present or not)
    site,                \* what the network answers: one response per requested page,
                         \* the WordPress detection and the modernization probes
    pc,                  \* position of runAudit
    pageIdx,             \* index of the next entry of pagesToAudit
    pageResults,         \* PageResult[] built by the page loop
    wpDetection,         \* result of detectWordPress (<<>> before it ran)
    modernizationResult, \* result of collectModernizationData (<<>> before it ran)
    audit,               \* AuditResult (<<>> before it is built)
    reportWritten,       \* the report file was written
    exitCode,            \* process exit code (-1 while running)
    scorerArgs,          \* arguments of a direct calculateScores call
    scorerResult,        \* its ScoringResult (<<>> before the call)
    ratingArg,           \* argument of a direct getRating call
    ratingResult,        \* its result ("" before the call)
    cache,               \* the PageSpeed cache of lighthouseCollector: entries key, data
    lookups,             \* the calls of collectLighthouseData and clearCache so far
    callArgs,            \* arguments of a direct call of a pure function (<<>>: none)
    callResult           \* its result (<<>> before the call)

vars == <<config, site, pc, pageIdx, pageResults, wpDetection, modernizationResult,
          audit, reportWritten, exitCode, scorerArgs, scorerResult, ratingArg,
          ratingResult, cache, lookups, callArgs, callResult>>

auditVars == <<config, site, pc, pageIdx, pageResults, wpDetection,
               modernizationResult, audit, reportWritten, exitCode>>
scorerVars == <<scorerArgs, scorerResult>>
ratingVars == <<ratingArg, ratingResult>>
lighthouseVars == <<cache, lookups>>
callVars == <<callArgs, callResult>>

----------------------------------------------------------------------------
(* Helpers *)

Min(a, b) == IF a < b THEN a ELSE b

RECURSIVE SumSeq(_)
SumSeq(s) == IF s = <<>> THEN 0 ELSE Head(s) + SumSeq(Tail(s))

\* s.some(p), given the sequence of p's values on s
Some(flags) == \E i \in 1..Len(flags) : flags[i]

FindIndex_last(flags) ==
    IF Some(flags)
    THEN CHOOSE i \in 1..Len(flags) : flags[i] /\ \A j \in (i + 1)..Len(flags) : ~flags[j]
    ELSE 0

\* index of the first element satisfying p, 0 when there is none (s.find(p)),
\* given the sequence of p's values on s
FindIndex(flags) ==
    IF Some(flags)
    THEN CHOOSE i \in 1..Len(flags) : flags[i] /\ \A j \in 1..(i - 1) : ~flags[j]
    ELSE 0

\* Math.round(sum / n) for sum >= 0, n > 0: halves round up
RoundDiv(sum, n) == (2 * sum + n) \div (2 * n)

----------------------------------------------------------------------------
(* Scoring rules: src/src/scoring/rules.ts *)

\* A switch without default adds nothing for a value outside its cases.
scorePerformance_noCssBaseline(analysis) ==
    LET html == CASE analysis.htmlSizeCategory = "excellent" -> 6
                  [] analysis.htmlSizeCategory = "good" -> 4
                  [] analysis.htmlSizeCategory = "fair" -> 2
                  [] analysis.htmlSizeCategory = "poor" -> 0
                  [] OTHER -> 0
        scripts == CASE analysis.scriptLoadCategory = "excellent" -> 8
                     [] analysis.scriptLoadCategory = "good" -> 5
                     [] analysis.scriptLoadCategory = "heavy" -> 1
                     [] OTHER -> 0
        images == CASE analysis.imageOptimization = "excellent" -> 6
                    [] analysis.imageOptimization = "good" -> 3
                    [] analysis.imageOptimization = "poor" -> 0
                    [] OTHER -> 0
        caching == CASE analysis.caching = "excellent" -> 6
                     [] analysis.caching = "partial" -> 3
                     [] analysis.caching = "none" -> 0
                     [] OTHER -> 0
        css == 0
    IN  Min(html + scripts + images + caching + css, 30)

scorePerformance(analysis) ==
    LET html == CASE analysis.htmlSizeCategory = "excellent" -> 6
                  [] analysis.htmlSizeCategory = "good" -> 4
                  [] analysis.htmlSizeCategory = "fair" -> 2
                  [] analysis.htmlSizeCategory = "poor" -> 0
                  [] OTHER -> 0
        scripts == CASE analysis.scriptLoadCategory = "excellent" -> 8
                     [] analysis.scriptLoadCategory = "good" -> 5
                     [] analysis.scriptLoadCategory = "heavy" -> 1
                     [] OTHER -> 0
        images == CASE analysis.imageOptimization = "excellent" -> 6
                    [] analysis.imageOptimization = "good" -> 3
                    [] analysis.imageOptimization = "poor" -> 0
                    [] OTHER -> 0
        caching == CASE analysis.caching = "excellent" -> 6
                     [] analysis.caching = "partial" -> 3
                     [] analysis.caching = "none" -> 0
                     [] OTHER -> 0
        css == 4
    IN  Min(html + scripts + images + caching + css, 30)

scoreSeo_eitherCrawlFileFull(analysis) ==
    LET title == CASE analysis.titleQuality = "excellent" -> 6
                   [] analysis.titleQuality = "good" -> 4
                   [] OTHER -> 0
        meta == CASE analysis.metaDescriptionQuality = "excellent" -> 6
                  [] analysis.metaDescriptionQuality = "good" -> 4
                  [] OTHER -> 0
        h1 == CASE analysis.h1Quality = "excellent" -> 5
                [] analysis.h1Quality = "issues" -> 2
                [] OTHER -> 0
        canonical == IF analysis.hasCanonical THEN 4 ELSE 0
        crawl == IF analysis.hasRobotsTxt \/ analysis.hasSitemap THEN 4 ELSE 0
    IN  Min(title + meta + h1 + canonical + crawl, 25)

scoreSeo(analysis) ==
    LET title == CASE analysis.titleQuality = "excellent" -> 6
                   [] analysis.titleQuality = "good" -> 4
                   [] analysis.titleQuality = "missing" -> 0
                   [] OTHER -> 0
        meta == CASE analysis.metaDescriptionQuality = "excellent" -> 6
                  [] analysis.metaDescriptionQuality = "good" -> 4
                  [] analysis.metaDescriptionQuality = "missing" -> 0
                  [] OTHER -> 0
        h1 == CASE analysis.h1Quality = "excellent" -> 5
                [] analysis.h1Quality = "issues" -> 2
                [] analysis.h1Quality = "missing" -> 0
                [] OTHER -> 0
        canonical == IF analysis.hasCanonical THEN 4 ELSE 0
        crawl == IF analysis.hasRobotsTxt /\ analysis.hasSitemap THEN 4
                 ELSE IF analysis.hasRobotsTxt \/ analysis.hasSitemap THEN 2
                 ELSE 0
    IN  Min(title + meta + h1 + canonical + crawl, 25)

scoreSecurity_noUpdatePosture(analysis) ==
    LET https == IF analysis.httpsStatus = "secure" THEN 5 ELSE 0
        headers == CASE analysis.headersCoverage = "excellent" -> 10
                     [] analysis.headersCoverage = "partial" -> 5
                     [] analysis.headersCoverage = "none" -> 0
                     [] OTHER -> 0
        version == IF analysis.versionExposure = "hidden" THEN 5 ELSE 0
    IN  Min(https + headers + version, 25)

scoreSecurity(analysis) ==
    LET https == IF analysis.httpsStatus = "secure" THEN 5 ELSE 0
        headers == CASE analysis.headersCoverage = "excellent" -> 10
                     [] analysis.headersCoverage = "partial" -> 5
                     [] analysis.headersCoverage = "none" -> 0
                     [] OTHER -> 0
        version == IF analysis.versionExposure = "hidden" THEN 5 ELSE 0
        updatePosture == 5
    IN  Min(https + headers + version + updatePosture, 25)

scoreModernization_noEndpointBonus(analysis) ==
    LET rest == CASE analysis.restApiStatus = "full" -> 6
                  [] analysis.restApiStatus = "partial" -> 3
                  [] OTHER -> 0
        permalinks == CASE analysis.permalinkModernity = "modern" -> 5
                        [] analysis.permalinkModernity = "mixed" -> 2
                        [] OTHER -> 0
        cdn == CASE analysis.cdnUsage = "yes" -> 4
                 [] analysis.cdnUsage = "partial" -> 2
                 [] OTHER -> 0
    IN  Min(rest + permalinks + cdn, 20)

scoreModernization(analysis) ==
    LET rest == CASE analysis.restApiStatus = "full" -> 6
                  [] analysis.restApiStatus = "partial" -> 3
                  [] analysis.restApiStatus = "none" -> 0
                  [] OTHER -> 0
        endpoints == IF analysis.restApiStatus = "full" THEN 5
                     ELSE IF analysis.restApiStatus = "partial" THEN 2
                     ELSE 0
        permalinks == CASE analysis.permalinkModernity = "modern" -> 5
                        [] analysis.permalinkModernity = "mixed" -> 2
                        [] analysis.permalinkModernity = "legacy" -> 0
                        [] OTHER -> 0
        cdn == CASE analysis.cdnUsage = "yes" -> 4
                 [] analysis.cdnUsage = "partial" -> 2
                 [] analysis.cdnUsage = "no" -> 0
                 [] OTHER -> 0
    IN  Min(rest + endpoints + permalinks + cdn, 20)

getRating_strictAbove(overallScore) ==
    IF overallScore > 80 THEN "healthy"
    ELSE IF overallScore > 60 THEN "needs-optimization"
    ELSE IF overallScore > 40 THEN "needs-modernization"
    ELSE "legacy"

getRating(overallScore) ==
    IF overallScore >= 80 THEN "healthy"
    ELSE IF overallScore >= 60 THEN "needs-optimization"
    ELSE IF overallScore >= 40 THEN "needs-modernization"
    ELSE "legacy"

calculateScores_clampedOverall(performanceAnalysis, seoAnalysis, securityAnalysis, modernizationAnalysis) ==
    LET performance == scorePerformance(performanceAnalysis)
        seo == scoreSeo(seoAnalysis)
        security == scoreSecurity(securityAnalysis)
        modernization == scoreModernization(modernizationAnalysis)
        overall == Min(performance + seo + security + modernization, 99)
    IN  [performance |-> performance, seo |-> seo, security |-> security,
         modernization |-> modernization, overall |-> overall,
         rating |-> getRating(overall)]

calculateScores(performanceAnalysis, seoAnalysis, securityAnalysis, modernizationAnalysis) ==
    LET performance == scorePerformance(performanceAnalysis)
        seo == scoreSeo(seoAnalysis)
        security == scoreSecurity(securityAnalysis)
        modernization == scoreModernization(modernizationAnalysis)
        overall == performance + seo + security + modernization
        rating == getRating(overall)
    IN  [performance |-> performance, seo |-> seo, security |-> security,
         modernization |-> modernization, overall |-> overall, rating |-> rating]

----------------------------------------------------------------------------
(* Analyzers: src/src/analyzers/seo.ts, src/src/analyzers/security.ts.     *)
(* Each returns its classification and its issues; the recommendations     *)
(* are advisory text no step reads and are left out.  An issue is its      *)
(* text without the interpolated number.                                   *)

analyzeSeo(seoData) ==
    LET titleQuality ==
            IF seoData.title = 0 THEN "missing"
            ELSE IF seoData.title < 30 \/ seoData.title > 60 THEN "good"
            ELSE "excellent"
        metaDescriptionQuality ==
            IF seoData.metaDescription = 0 THEN "missing"
            ELSE IF seoData.metaDescription < 120 \/ seoData.metaDescription > 160
                 THEN "good"
            ELSE "excellent"
        h1Quality ==
            IF seoData.h1Tags = 0 THEN "missing"
            ELSE IF seoData.h1Tags > 1 THEN "issues"
            ELSE "excellent"
        hasCanonical == seoData.canonicalUrl
        issues ==
            (IF titleQuality = "missing" THEN <<"Page title is missing">> ELSE <<>>)
            \o (IF metaDescriptionQuality = "missing"
                THEN <<"Meta description is missing">> ELSE <<>>)
            \o (IF h1Quality = "missing" THEN <<"No H1 heading found">>
                ELSE IF h1Quality = "issues" THEN <<"Multiple H1 tags found">>
                ELSE <<>>)
            \o (IF ~seoData.hasRobotsTxt THEN <<"No robots.txt file found">> ELSE <<>>)
            \o (IF ~seoData.hasSitemap THEN <<"No sitemap.xml found">> ELSE <<>>)
    IN  [titleQuality |-> titleQuality,
         metaDescriptionQuality |-> metaDescriptionQuality,
         h1Quality |-> h1Quality,
         hasCanonical |-> hasCanonical,
         hasRobotsTxt |-> seoData.hasRobotsTxt,
         hasSitemap |-> seoData.hasSitemap,
         issues |-> issues]

headlessReadinessOf_partialOnly(restApiStatus, permalinkModernity) ==
    IF restApiStatus = "full" /\ permalinkModernity = "modern" THEN "ready"
    ELSE IF restApiStatus = "none" THEN "not-ready"
    ELSE "needs-work"

\* The "Overall headless readiness" cascade.
headlessReadinessOf(restApiStatus, permalinkModernity) ==
    IF restApiStatus = "full" /\ permalinkModernity = "modern" THEN "ready"
    ELSE IF restApiStatus = "none" \/ permalinkModernity = "legacy" THEN "not-ready"
    ELSE "needs-work"

analyzeModernization(modData) ==
    LET restApiStatus ==
            IF modData.hasRestApi /\ modData.hasPostsEndpoint /\ modData.hasPagesEndpoint
            THEN "full"
            ELSE IF modData.hasRestApi THEN "partial"
            ELSE "none"
        permalinkModernity == IF modData.hasPrettyPermalinks THEN "modern" ELSE "legacy"
        cdnUsage == IF modData.usesCdn /\ modData.cdnDomains > 0 THEN "yes" ELSE "no"
        headlessReadiness == headlessReadinessOf(restApiStatus, permalinkModernity)
        issues ==
            (IF restApiStatus = "partial"
             THEN (IF ~modData.hasPostsEndpoint
                   THEN <<"Posts endpoint not accessible">> ELSE <<>>)
                  \o (IF ~modData.hasPagesEndpoint
                      THEN <<"Pages endpoint not accessible">> ELSE <<>>)
             ELSE IF restApiStatus = "none"
                  THEN <<"WordPress REST API is not accessible">>
             ELSE <<>>)
            \o (IF permalinkModernity = "legacy"
                THEN <<"Using query-string based URLs instead of pretty permalinks">>
                ELSE <<>>)
            \o (IF cdnUsage = "no" THEN <<"No CDN detected for static assets">>
                ELSE <<>>)
    IN  [restApiStatus |-> restApiStatus,
         permalinkModernity |-> permalinkModernity,
         cdnUsage |-> cdnUsage,
         headlessReadiness |-> headlessReadiness,
         issues |-> issues]

overallPostureOf_weakFirst(httpsStatus, headersCoverage, versionExposure) ==
    IF httpsStatus = "insecure" \/ headersCoverage # "excellent" THEN "weak"
    ELSE IF versionExposure = "hidden" THEN "strong"
    ELSE "moderate"

\* The "Overall posture" cascade.
overallPostureOf(httpsStatus, headersCoverage, versionExposure) ==
    IF httpsStatus = "secure" /\ headersCoverage = "excellent"
       /\ versionExposure = "hidden"
    THEN "strong"
    ELSE IF httpsStatus = "insecure" \/ headersCoverage = "none" THEN "weak"
    ELSE "moderate"

analyzeSecurity(secData) ==
    LET httpsStatus == IF secData.isHttps THEN "secure" ELSE "insecure"
        presentCount ==
            (IF secData.hasXContentTypeOptions THEN 1 ELSE 0)
            + (IF secData.hasXFrameOptions THEN 1 ELSE 0)
            + (IF secData.hasContentSecurityPolicy THEN 1 ELSE 0)
        headersCoverage ==
            IF presentCount = 3 THEN "excellent"
            ELSE IF presentCount >= 1 THEN "partial"
            ELSE "none"
        versionExposure == IF secData.exposedWpVersion THEN "exposed" ELSE "hidden"
        overallPosture == overallPostureOf(httpsStatus, headersCoverage, versionExposure)
        issues ==
            (IF ~secData.isHttps THEN <<"Site is not using HTTPS">> ELSE <<>>)
            \o (IF headersCoverage = "partial"
                THEN (IF ~secData.hasXContentTypeOptions
                      THEN <<"Missing X-Content-Type-Options header">> ELSE <<>>)
                     \o (IF ~secData.hasXFrameOptions
                         THEN <<"Missing X-Frame-Options header">> ELSE <<>>)
                     \o (IF ~secData.hasContentSecurityPolicy
                         THEN <<"Missing Content-Security-Policy header">> ELSE <<>>)
                ELSE IF headersCoverage = "none"
                     THEN <<"Critical security headers are missing">>
                ELSE <<>>)
            \o (IF secData.exposedWpVersion
                THEN <<"WordPress version is publicly exposed">> ELSE <<>>)
    IN  [httpsStatus |-> httpsStatus,
         headersCoverage |-> headersCoverage,
         versionExposure |-> versionExposure,
         overallPosture |-> overallPosture,
         issues |-> issues]

\* good / needs-improvement / poor against the two thresholds of one metric
vitalStatus(value, goodBelow, poorFrom) ==
    IF value < goodBelow THEN "good"
    ELSE IF value < poorFrom THEN "needs-improvement"
    ELSE "poor"

\* modernFormats / totalImages > 0.7 without the equality case
modernRatioExcellent_atLeast(modernFormats, totalImages) ==
    10 * modernFormats >= 7 * totalImages

\* modernFormats / totalImages > 0.7
modernRatioExcellent(modernFormats, totalImages) ==
    10 * modernFormats > 7 * totalImages

\* modernFormats / totalImages > 0.3
modernRatioGood(modernFormats, totalImages) ==
    10 * modernFormats > 3 * totalImages

htmlSizeCategoryOf_inclusive(htmlSizeBytes) ==
    IF htmlSizeBytes <= 100000 THEN "excellent"
    ELSE IF htmlSizeBytes <= 200000 THEN "good"
    ELSE IF htmlSizeBytes <= 300000 THEN "fair"
    ELSE "poor"

\* The "Analyze HTML size" cascade.
htmlSizeCategoryOf(htmlSizeBytes) ==
    IF htmlSizeBytes < 100000 THEN "excellent"
    ELSE IF htmlSizeBytes < 200000 THEN "good"
    ELSE IF htmlSizeBytes < 300000 THEN "fair"
    ELSE "poor"

cachingOf_maxAgeOnly(hasCacheControl, cacheControlValue) ==
    IF hasCacheControl /\ cacheControlValue = "max-age=3600" THEN "excellent"
    ELSE IF hasCacheControl THEN "partial"
    ELSE "none"

\* The "Analyze caching" cascade; an empty or absent header value is falsy.
cachingOf(hasCacheControl, cacheControlValue) ==
    IF hasCacheControl /\ cacheControlValue # "" THEN "excellent"
    ELSE IF hasCacheControl THEN "partial"
    ELSE "none"

analyzePerformance(perfData, lighthouseData) ==
    LET htmlSizeCategory == htmlSizeCategoryOf(perfData.htmlSizeBytes)
        scriptLoadCategory ==
            IF perfData.numScripts < 10 THEN "excellent"
            ELSE IF perfData.numScripts < 20 THEN "good"
            ELSE "heavy"
        f == perfData.imageFormats
        totalImages == f.jpeg + f.png + f.webp + f.avif + f.svg + f.gif
        modernFormats == f.webp + f.avif
        imageOptimization ==
            IF totalImages = 0 THEN "excellent"
            ELSE IF modernRatioExcellent(modernFormats, totalImages) THEN "excellent"
            ELSE IF modernRatioGood(modernFormats, totalImages) THEN "good"
            ELSE "poor"
        caching == cachingOf(perfData.hasCacheControl, perfData.cacheControlValue)
        lh == IF lighthouseData = <<>> THEN [lcp |-> 0, cls |-> 0, inp |-> 0, ttfb |-> 0]
              ELSE lighthouseData[1]
        lcpStatus == vitalStatus(lh.lcp, 2500, 4000)
        clsStatus == vitalStatus(lh.cls, 100, 250)
        inpStatus == vitalStatus(lh.inp, 200, 500)
        ttfbStatus == vitalStatus(lh.ttfb, 800, 1800)
        coreWebVitals ==
            IF lighthouseData = <<>> THEN <<>>
            ELSE <<[lcpStatus |-> lcpStatus, clsStatus |-> clsStatus,
                    inpStatus |-> inpStatus, ttfbStatus |-> ttfbStatus]>>
        issues ==
            (IF htmlSizeCategory = "fair" THEN <<"HTML size is">>
             ELSE IF htmlSizeCategory = "poor" THEN <<"Large HTML size">>
             ELSE <<>>)
            \o (IF scriptLoadCategory = "heavy" THEN <<"JavaScript files loaded">>
                ELSE <<>>)
            \o (IF perfData.blockingScripts > 0 THEN <<"blocking scripts in <head>">>
                ELSE <<>>)
            \o (IF imageOptimization = "poor" THEN <<"Most images use legacy formats">>
                ELSE <<>>)
            \o (IF caching = "none" THEN <<"No caching headers detected">> ELSE <<>>)
            \o (IF lighthouseData # <<>> /\ lcpStatus = "poor" THEN <<"Poor LCP">>
                ELSE <<>>)
            \o (IF lighthouseData # <<>> /\ clsStatus = "poor" THEN <<"Poor CLS">>
                ELSE <<>>)
            \o (IF lighthouseData # <<>> /\ inpStatus = "poor" THEN <<"Poor INP">>
                ELSE <<>>)
            \o (IF lighthouseData # <<>> /\ ttfbStatus = "poor" THEN <<"Slow TTFB">>
                ELSE <<>>)
    IN  [htmlSizeCategory |-> htmlSizeCategory,
         scriptLoadCategory |-> scriptLoadCategory,
         imageOptimization |-> imageOptimization,
         caching |-> caching,
         coreWebVitals |-> coreWebVitals,
         issues |-> issues]

----------------------------------------------------------------------------
(* Aggregation: runAudit of src/unnamed/part_000 (the CLI entry point),    *)
(* lines 292-420.                                                          *)

isHomepage(path) == path = "/" \/ path = ""

seoWeight_flat(path) == 1

\* weight of a page in the SEO coverage
seoWeight(path) == IF isHomepage(path) THEN 2 ELSE 1

meanOf_truncated(values) == SumSeq(values) \div Len(values)

\* Math.round(pageResults.reduce((sum, p) => sum + field(p), 0) / pageResults.length),
\* given the sequence of the field's values on pageResults
meanOf(values) == RoundDiv(SumSeq(values), Len(values))

aggregatePerformance(results) ==
    LET each(f(_)) == [i \in 1..Len(results) |-> f(results[i])]
        htmlSizeBytes(p) == p.performanceResult.htmlSizeBytes
        numScripts(p) == p.performanceResult.numScripts
        numStylesheets(p) == p.performanceResult.numStylesheets
        blockingScripts(p) == p.performanceResult.blockingScripts
        blockingStylesheets(p) == p.performanceResult.blockingStylesheets
        jpeg(p) == p.performanceResult.imageFormats.jpeg
        png(p) == p.performanceResult.imageFormats.png
        webp(p) == p.performanceResult.imageFormats.webp
        avif(p) == p.performanceResult.imageFormats.avif
        svg(p) == p.performanceResult.imageFormats.svg
        gif(p) == p.performanceResult.imageFormats.gif
        hasCacheControl(p) == p.performanceResult.hasCacheControl
        hasCacheControlValue(p) == p.performanceResult.cacheControlValue # ""
        found == FindIndex(each(hasCacheControlValue))
    IN  [htmlSizeBytes |-> meanOf(each(htmlSizeBytes)),
         numScripts |-> meanOf(each(numScripts)),
         numStylesheets |-> meanOf(each(numStylesheets)),
         blockingScripts |-> meanOf(each(blockingScripts)),
         blockingStylesheets |-> meanOf(each(blockingStylesheets)),
         imageFormats |-> [jpeg |-> meanOf(each(jpeg)),
                           png |-> meanOf(each(png)),
                           webp |-> meanOf(each(webp)),
                           avif |-> meanOf(each(avif)),
                           svg |-> meanOf(each(svg)),
                           gif |-> meanOf(each(gif))],
         hasCacheControl |-> Some(each(hasCacheControl)),
         cacheControlValue |->
             IF found = 0 THEN "" ELSE results[found].performanceResult.cacheControlValue]

\* seoScores.filter(feature).reduce((sum, s) => sum + s.weight, 0)
weightedCount(results, flags) ==
    SumSeq([i \in 1..Len(results) |-> IF flags[i] THEN seoWeight(results[i].path) ELSE 0])

totalSeoWeight(results) ==
    SumSeq([i \in 1..Len(results) |-> seoWeight(results[i].path)])

hasTitle(p) == p.seoResult.title # 0
hasMeta(p) == p.seoResult.metaDescription # 0
hasCanonicalUrl(p) == p.seoResult.canonicalUrl
hasGoodH1(p) == p.seoResult.h1Tags = 1

aggregateSeo(results) ==
    LET each(f(_)) == [i \in 1..Len(results) |-> f(results[i])]
        pagesWithTitle == weightedCount(results, each(hasTitle))
        pagesWithMeta == weightedCount(results, each(hasMeta))
        pagesWithCanonical == weightedCount(results, each(hasCanonicalUrl))
        pagesWithGoodH1 == weightedCount(results, each(hasGoodH1))
        total == totalSeoWeight(results)
        hasRobotsTxt(p) == p.seoResult.hasRobotsTxt
        hasSitemap(p) == p.seoResult.hasSitemap
    IN  [title |-> IF pagesWithTitle > 0 THEN results[1].seoResult.title ELSE 0,
         metaDescription |->
             IF pagesWithMeta > 0 THEN results[1].seoResult.metaDescription ELSE 0,
         canonicalUrl |->
             IF pagesWithCanonical > 0 THEN results[1].seoResult.canonicalUrl ELSE FALSE,
         h1Tags |-> IF pagesWithGoodH1 > 0 THEN results[1].seoResult.h1Tags ELSE 0,
         hasRobotsTxt |-> Some(each(hasRobotsTxt)),
         hasSitemap |-> Some(each(hasSitemap)),
         _aggregation |->
             [titleCoverage |-> [num |-> pagesWithTitle, den |-> total],
              metaCoverage |-> [num |-> pagesWithMeta, den |-> total],
              canonicalCoverage |-> [num |-> pagesWithCanonical, den |-> total],
              h1Coverage |-> [num |-> pagesWithGoodH1, den |-> total],
              totalPages |-> Len(results)]]

aggregateSecurity_anyPage(results) ==
    LET or(field(_)) == Some([i \in 1..Len(results) |-> field(results[i])])
        isHttps(p) == p.securityResult.isHttps
        xcto(p) == p.securityResult.hasXContentTypeOptions
        xfo(p) == p.securityResult.hasXFrameOptions
        csp(p) == p.securityResult.hasContentSecurityPolicy
        exposed(p) == p.securityResult.exposedWpVersion
    IN  [isHttps |-> or(isHttps), hasXContentTypeOptions |-> or(xcto),
         hasXFrameOptions |-> or(xfo), hasContentSecurityPolicy |-> or(csp),
         exposedWpVersion |-> or(exposed)]

aggregateSecurity_lastPage(results) == results[Len(results)].securityResult

\* aggregatedSecurity = firstPage.securityResult
aggregateSecurity(results) == results[1].securityResult

\* pageResults.find((p) => p.path === "/")?.lighthouseData || firstPage.lighthouseData
selectLighthouseData(results) ==
    LET each(f(_)) == [i \in 1..Len(results) |-> f(results[i])]
        isRoot(p) == p.path = "/"
        root == FindIndex(each(isRoot))
    IN  IF root # 0 /\ results[root].lighthouseData # <<>>
        THEN results[root].lighthouseData
        ELSE results[1].lighthouseData

collectTopIssues_modernizationFirst(performanceAnalysis, seoAnalysis, securityAnalysis, modernizationAnalysis) ==
    LET take(s, n) == SubSeq(s, 1, Min(n, Len(s)))
        topIssues == take(modernizationAnalysis.issues, 1)
                     \o take(securityAnalysis.issues, 2)
                     \o take(performanceAnalysis.issues, 2)
                     \o take(seoAnalysis.issues, 1)
    IN  take(topIssues, 5)

\* topIssues: two security, two performance, one SEO, one modernization issue
collectTopIssues(performanceAnalysis, seoAnalysis, securityAnalysis, modernizationAnalysis) ==
    LET take(s, n) == SubSeq(s, 1, Min(n, Len(s)))
        topIssues == take(securityAnalysis.issues, 2)
                     \o take(performanceAnalysis.issues, 2)
                     \o take(seoAnalysis.issues, 1)
                     \o take(modernizationAnalysis.issues, 1)
    IN  take(topIssues, 5)

\* runAudit from the aggregation to the AuditResult (v0.4.0)
buildAuditResult(results, detection, modData) ==
    LET aggregatedPerf == aggregatePerformance(results)
        aggregatedSeo == aggregateSeo(results)
        aggregatedSecurity == aggregateSecurity(results)
        lighthouseData == selectLighthouseData(results)
        performanceAnalysis == analyzePerformance(aggregatedPerf, lighthouseData)
        seoAnalysis == analyzeSeo(aggregatedSeo)
        securityAnalysis == analyzeSecurity(aggregatedSecurity)
        modernizationAnalysis == analyzeModernization(modData)
        scores == calculateScores(performanceAnalysis, seoAnalysis, securityAnalysis,
                                  modernizationAnalysis)
    IN  [pages |-> results,
         wpDetection |-> detection,
         aggregated |-> [performance |-> aggregatedPerf, seo |-> aggregatedSeo,
                         security |-> aggregatedSecurity,
                         lighthouseData |-> lighthouseData],
         scores |-> scores,
         analyses |-> [performance |-> performanceAnalysis, seo |-> seoAnalysis,
                       security |-> securityAnalysis,
                       modernization |-> modernizationAnalysis],
         topIssues |-> collectTopIssues(performanceAnalysis, seoAnalysis,
                                        securityAnalysis, modernizationAnalysis)]

\* runAudit of v0.1.0: the first page is analysed as it was observed
analyzeFirstPage(results, modData) ==
    LET firstPage == results[1]
    IN  [performance |-> analyzePerformance(firstPage.performanceResult, <<>>),
         seo |-> analyzeSeo(firstPage.seoResult),
         security |-> analyzeSecurity(firstPage.securityResult),
         modernization |-> analyzeModernization(modData)]

----------------------------------------------------------------------------
(* Sitemap collector: src/unnamed/part_002.  A SitemapUrl has a loc, a priority  *)
(* in tenths and a lastmod day number, each of the two <<>> when missing.        *)

\* new URL(loc).pathname === "/" || ... === "": the site root, with or without query
isHomepageLoc(loc) == loc \in {"https://x/", "https://x/?lang=en"}

\* a.priority ?? 0.5
priorityOf(url) == IF url.priority = <<>> THEN 5 ELSE url.priority[1]

\* The sort comparator is negative: a is placed before b.
sortsBefore(a, b) ==
    IF priorityOf(a) # priorityOf(b) THEN priorityOf(a) > priorityOf(b)
    ELSE IF a.lastmod # <<>> /\ b.lastmod # <<>> THEN a.lastmod[1] > b.lastmod[1]
    ELSE FALSE

\* [...urls].sort(comparator): Array.prototype.sort is stable
RECURSIVE sortUrls(_)
sortUrls(urls) ==
    IF urls = <<>> THEN <<>>
    ELSE LET n == Len(urls)
             sortedFront == sortUrls(SubSeq(urls, 1, n - 1))
             x == urls[n]
             \* x goes after every element that does not sort strictly after it
             keep == {i \in 1..(n - 1) :
                         \A j \in 1..i : ~sortsBefore(x, sortedFront[j])}
             at == Cardinality(keep)
         IN  SubSeq(sortedFront, 1, at) \o <<x>> \o SubSeq(sortedFront, at + 1, n - 1)

selectTopPages(urls, maxPages) ==
    LET sorted == sortUrls(urls)
        home == FindIndex([i \in 1..Len(sorted) |-> isHomepageLoc(sorted[i].loc)])
        isHomepageUrl(loc) == home # 0 /\ loc = sorted[home].loc
        RECURSIVE addRemaining(_, _)
        addRemaining(selected, i) ==
            IF i > Len(sorted) \/ Len(selected) >= maxPages THEN selected
            ELSE IF ~isHomepageUrl(sorted[i].loc)
                 THEN addRemaining(Append(selected, sorted[i].loc), i + 1)
            ELSE addRemaining(selected, i + 1)
    IN  addRemaining(IF home # 0 THEN <<sorted[home].loc>> ELSE <<>>, 1)

----------------------------------------------------------------------------
(* PageSpeed collector: src/src/collectors/lighthouseCollector.ts *)

\* new URL(pagePath, config.url).toString(): the empty path is the base URL itself.
\* A URL is the sequence of its parts.
pageUrl(pagePath) == IF pagePath = "" THEN <<"/">> ELSE <<pagePath>>

cacheKey_urlOnly(url, strategy) == url

\* `${url}-${strategy}`
cacheKey(url, strategy) == url \o <<"-", strategy>>

\* cache.has(key), cache.get(key), cache.set(key, data) of the Map
cacheHas(entries, key) == \E e \in entries : e.key = key
cacheGet(entries, key) == (CHOOSE e \in entries : e.key = key).data
cacheSet(entries, key, data) ==
    {e \in entries : e.key # key} \cup {[key |-> key, data |-> data]}

\* collectLighthouseData(url, {strategy}) on the cache entries: a cached record is
\* returned without a request; otherwise the API is asked, answer being its record
\* (<<>> for every failure: status 429, 400, 403, another status, no audits, a thrown
\* error, all of which return null).  Gives the returned value, the cache afterwards
\* and the call as it is logged.
collectLighthouseData(entries, url, strategy, answer) ==
    LET key == cacheKey(url, strategy)
        hit == cacheHas(entries, key)
        result == IF hit THEN <<cacheGet(entries, key)>> ELSE answer
        after == IF ~hit /\ answer # <<>> THEN cacheSet(entries, key, answer[1])
                 ELSE entries
    IN  [result |-> result,
         cache |-> after,
         call |-> [kind |-> "lookup", url |-> url, strategy |-> strategy,
                   requested |-> ~hit,
                   answer |-> IF hit THEN <<>> ELSE answer,
                   result |-> result]]

----------------------------------------------------------------------------
(* runAudit: the page loop and the steps after it *)

\* collectModernizationData(baseUrl, html): the three REST probes are answered by the
\* site; the permalink style and the CDN domains are read from the given HTML.
collectModernizationData(probes, html) ==
    LET hasPrettyPermalinks == html.hasPrettyUrls /\ ~html.hasQueryParams
        usesCdn == html.cdnDomains > 0
    IN  [hasRestApi |-> probes.hasRestApi,
         hasPostsEndpoint |-> probes.hasPostsEndpoint,
         hasPagesEndpoint |-> probes.hasPagesEndpoint,
         hasPrettyPermalinks |-> hasPrettyPermalinks,
         usesCdn |-> usesCdn,
         cdnDomains |-> html.cdnDomains]

fetchFailed_errorOnly(httpResult) == httpResult.error

\* httpResult.error || httpResult.status !== 200
fetchFailed(httpResult) == httpResult.error \/ httpResult.status # 200

noPagesAudited_never(results) == FALSE

\* pageResults.length === 0
noPagesAudited(results) == Len(results) = 0

\* One iteration of `for (const pagePath of pagesToAudit)`: fetch the page, skip it
\* when the fetch failed, else collect its data and push the PageResult.
AuditPage ==
    /\ pc = "pages"
    /\ pageIdx <= Len(config.pages)
    /\ LET pagePath == config.pages[pageIdx]
           response == site.responses[pageIdx]
           httpResult == [status |-> response.status, error |-> response.error,
                          body |-> response.body]
           shouldFetchPageSpeed == pagePath = "/" \/ Len(pageResults) < 3
           strategy == IF config.psStrategy = "both" THEN "mobile" ELSE config.psStrategy
           called == ~fetchFailed(httpResult) /\ config.psApiKey /\ shouldFetchPageSpeed
           lookup == collectLighthouseData(cache, pageUrl(pagePath), strategy,
                                           response.lighthouse)
           lighthouseData == IF called THEN lookup.result ELSE <<>>
       IN  /\ pageResults' =
                  IF fetchFailed(httpResult) THEN pageResults
                  ELSE Append(pageResults,
                              [path |-> pagePath,
                               httpResult |-> httpResult,
                               seoResult |-> response.seoResult,
                               performanceResult |-> response.performanceResult,
                               securityResult |-> response.securityResult,
                               lighthouseData |-> lighthouseData])
           /\ cache' = IF called THEN lookup.cache ELSE cache
           /\ lookups' = IF called THEN Append(lookups, lookup.call) ELSE lookups
    /\ pageIdx' = pageIdx + 1
    /\ UNCHANGED <<config, site, pc, wpDetection, modernizationResult, audit,
                   reportWritten, exitCode>>
    /\ UNCHANGED <<scorerVars, ratingVars, callVars>>

\* After the loop: process.exit(2) when no page could be audited.
CheckPagesAudited ==
    /\ pc = "pages"
    /\ pageIdx > Len(config.pages)
    /\ IF noPagesAudited(pageResults)
       THEN pc' = "exited" /\ exitCode' = 2
       ELSE pc' = "detect" /\ exitCode' = exitCode
    /\ UNCHANGED <<config, site, pageIdx, pageResults, wpDetection,
                   modernizationResult, audit, reportWritten>>
    /\ UNCHANGED <<scorerVars, ratingVars, lighthouseVars, callVars>>

\* await detectWordPress(...): a site that is not WordPress only gets a warning.
DetectWordPress ==
    /\ pc = "detect"
    /\ wpDetection' = <<[isWordPress |-> site.isWordPress]>>
    /\ pc' = "modernization"
    /\ UNCHANGED <<config, site, pageIdx, pageResults, modernizationResult, audit,
                   reportWritten, exitCode>>
    /\ UNCHANGED <<scorerVars, ratingVars, lighthouseVars, callVars>>

\* await collectModernizationData(config.url, firstPage.httpResult.body, ...)
CollectModernization ==
    /\ pc = "modernization"
    /\ modernizationResult' =
           <<collectModernizationData(site.modernization,
                                      pageResults[1].httpResult.body)>>
    /\ pc' = "analyze"
    /\ UNCHANGED <<config, site, pageIdx, pageResults, wpDetection, audit,
                   reportWritten, exitCode>>
    /\ UNCHANGED <<scorerVars, ratingVars, lighthouseVars, callVars>>

\* Aggregation, the four analyzers, the scorer, the top issues, the AuditResult.
AnalyzeAndScore ==
    /\ pc = "analyze"
    /\ audit' = <<buildAuditResult(pageResults, wpDetection[1], modernizationResult[1])>>
    /\ pc' = "report"
    /\ UNCHANGED <<config, site, pageIdx, pageResults, wpDetection,
                   modernizationResult, reportWritten, exitCode>>
    /\ UNCHANGED <<scorerVars, ratingVars, lighthouseVars, callVars>>

\* await writeFile(...); process.exit(0).  A rejected write reaches the catch of the
\* runAudit call and exits with 2.
WriteReport ==
    /\ pc = "report"
    /\ \E written \in BOOLEAN :
          /\ reportWritten' = written
          /\ exitCode' = IF written THEN 0 ELSE 2
    /\ pc' = "exited"
    /\ UNCHANGED <<config, site, pageIdx, pageResults, wpDetection,
                   modernizationResult, audit>>
    /\ UNCHANGED <<scorerVars, ratingVars, lighthouseVars, callVars>>

NextAudit ==
    \/ AuditPage
    \/ CheckPagesAudited
    \/ DetectWordPress
    \/ CollectModernization
    \/ AnalyzeAndScore
    \/ WriteReport

----------------------------------------------------------------------------
(* Direct calls of the scorer *)

CallCalculateScores ==
    /\ scorerArgs # <<>>
    /\ scorerResult = <<>>
    /\ scorerResult' = <<calculateScores(scorerArgs[1].performance, scorerArgs[1].seo,
                                         scorerArgs[1].security,
                                         scorerArgs[1].modernization)>>
    /\ UNCHANGED <<scorerArgs, ratingVars, auditVars, lighthouseVars, callVars>>

CallGetRating ==
    /\ ratingArg >= 0
    /\ ratingResult = ""
    /\ ratingResult' = getRating(ratingArg)
    /\ UNCHANGED <<ratingArg, scorerVars, auditVars, lighthouseVars, callVars>>

NextScore ==
    \/ CallCalculateScores
    \/ CallGetRating

----------------------------------------------------------------------------
(* Inputs *)

SeoOf(title, meta, canonical, h1, robots, sitemap) ==
    [title |-> title, metaDescription |-> meta, canonicalUrl |-> canonical,
     h1Tags |-> h1, hasRobotsTxt |-> robots, hasSitemap |-> sitemap]

PerfOf(html, scripts, blocking, jpeg, png, webp, avif, hasCache, cacheValue) ==
    [htmlSizeBytes |-> html, numScripts |-> scripts, numStylesheets |-> 2,
     blockingScripts |-> blocking, blockingStylesheets |-> 1,
     imageFormats |-> [jpeg |-> jpeg, png |-> png, webp |-> webp, avif |-> avif,
                       svg |-> 0, gif |-> 0],
     hasCacheControl |-> hasCache, cacheControlValue |-> cacheValue]

SecOf(https, xcto, xfo, csp, exposed) ==
    [isHttps |-> https, hasXContentTypeOptions |-> xcto, hasXFrameOptions |-> xfo,
     hasContentSecurityPolicy |-> csp, exposedWpVersion |-> exposed]

LhOf(lcp, cls, inp, ttfb) == <<[lcp |-> lcp, cls |-> cls, inp |-> inp, ttfb |-> ttfb]>>

ModOf(rest, posts, pages, pretty, cdn, domains) ==
    [hasRestApi |-> rest, hasPostsEndpoint |-> posts, hasPagesEndpoint |-> pages,
     hasPrettyPermalinks |-> pretty, usesCdn |-> cdn, cdnDomains |-> domains]

\* What the three REST probes of collectModernizationData answer.
ProbesOf(rest, posts, pages) ==
    [hasRestApi |-> rest, hasPostsEndpoint |-> posts, hasPagesEndpoint |-> pages]

\* What collectModernizationData finds in a page's HTML: a ?p=/?page_id=/?cat= link,
\* a pretty link (and no "?p="), and the number of distinct CDN domains.
BodyOf(queryParams, prettyUrls, domains) ==
    [hasQueryParams |-> queryParams, hasPrettyUrls |-> prettyUrls,
     cdnDomains |-> domains]

BodyModern == BodyOf(FALSE, TRUE, 1)
BodyLegacy == BodyOf(TRUE, FALSE, 0)
BodyEmpty == BodyOf(FALSE, FALSE, 0)
Bodies == {BodyModern, BodyLegacy, BodyOf(FALSE, TRUE, 0), BodyEmpty}

\* The answer to a page request and what the collectors read from it; the HTML has
\* pretty links and one CDN asset unless WithBody says otherwise, and is empty when
\* the fetch threw.  secondAttempt tells whether a second request for the same page
\* would be answered 200: the same answer again unless the failure is transient.
Response(status, error, seo, perf, sec, lh) ==
    [status |-> status, error |-> error,
     secondAttempt |-> ~error /\ status = 200,
     body |-> IF error THEN BodyEmpty ELSE BodyModern,
     seoResult |-> seo, performanceResult |-> perf, securityResult |-> sec,
     lighthouse |-> lh]

WithBody(response, body) == [response EXCEPT !.body = body]

SeoIdeal == SeoOf(45, 150, TRUE, 1, TRUE, TRUE)
SeoNone == SeoOf(0, 0, FALSE, 0, FALSE, FALSE)
PerfIdeal == PerfOf(50000, 5, 0, 1, 0, 4, 0, TRUE, "max-age=3600")
PerfNone == PerfOf(0, 0, 0, 0, 0, 0, 0, FALSE, "")
PerfHeavy == PerfOf(300000, 20, 3, 5, 5, 0, 0, FALSE, "")
SecIdeal == SecOf(TRUE, TRUE, TRUE, TRUE, FALSE)
SecNone == SecOf(FALSE, FALSE, FALSE, FALSE, TRUE)
LhGood == LhOf(2000, 50, 150, 700)
ProbesIdeal == ProbesOf(TRUE, TRUE, TRUE)
ProbesPartial == ProbesOf(TRUE, TRUE, FALSE)
ProbesNone == ProbesOf(FALSE, FALSE, FALSE)

\* fetchPage caught an exception: status 0, empty body, error set
NetworkError == Response(0, TRUE, SeoNone, PerfNone, SecNone, <<>>)
\* fetchPage caught an exception (connection reset) that a second request would not meet
TransientError == [NetworkError EXCEPT !.secondAttempt = TRUE]
\* the server answered with an error page
NotFound == Response(404, FALSE, SeoOf(14, 0, FALSE, 1, TRUE, TRUE), PerfIdeal, SecIdeal,
                     LhGood)

\* Mixed sites: every kind of fetch outcome.
Paths == {"/", "", "/about"}
MixedResponses ==
    {Response(200, FALSE, SeoIdeal, PerfIdeal, SecIdeal, LhGood),
     WithBody(Response(200, FALSE, SeoOf(10, 0, FALSE, 2, FALSE, TRUE), PerfHeavy,
                       SecOf(TRUE, FALSE, TRUE, FALSE, TRUE), <<>>),
              BodyLegacy),
     NotFound,
     NetworkError}

\* Sites whose pages differ in their SEO fields.
SeoResponses ==
    {Response(200, FALSE, seo, PerfIdeal, SecIdeal, <<>>) :
        seo \in {SeoIdeal,
                 SeoOf(10, 100, TRUE, 2, TRUE, FALSE),
                 SeoOf(0, 150, TRUE, 1, TRUE, TRUE),
                 SeoOf(45, 0, FALSE, 0, FALSE, FALSE),
                 SeoOf(70, 170, FALSE, 3, FALSE, TRUE),
                 SeoNone}}
    \cup {NotFound}

\* Sites whose pages differ in their security fields.
SecuritySettings ==
    {SecIdeal,
     SecOf(TRUE, TRUE, TRUE, TRUE, TRUE),
     SecOf(TRUE, TRUE, FALSE, FALSE, FALSE),
     SecOf(TRUE, FALSE, FALSE, FALSE, FALSE),
     SecOf(FALSE, TRUE, TRUE, TRUE, FALSE),
     SecNone}
SecurityResponses ==
    {Response(200, FALSE, SeoIdeal, PerfIdeal, sec, <<>>) : sec \in SecuritySettings}
    \cup {NotFound}

\* Sites whose pages differ in their performance counts and field-performance data.
PerformanceResponses ==
    {Response(200, FALSE, SeoOf(30, 120, TRUE, 1, TRUE, TRUE),
              PerfOf(99999, 9, 0, 2, 0, 6, 2, TRUE, "max-age=3600"), SecIdeal, LhGood),
     Response(200, FALSE, SeoOf(60, 160, TRUE, 1, TRUE, TRUE),
              PerfOf(0, 0, 0, 0, 0, 0, 0, TRUE, "public"), SecIdeal, <<>>),
     Response(200, FALSE, SeoIdeal,
              PerfOf(50000, 5, 0, 3, 0, 7, 0, TRUE, "max-age=3600"), SecIdeal, <<>>),
     Response(200, FALSE, SeoIdeal,
              [PerfOf(150000, 15, 1, 1, 1, 1, 1, TRUE, "private")
                   EXCEPT !.numStylesheets = 5, !.blockingStylesheets = 4,
                          !.imageFormats.svg = 3, !.imageFormats.gif = 2],
              SecIdeal, LhOf(3000, 150, 300, 1000)),
     Response(200, FALSE, SeoOf(29, 119, TRUE, 1, TRUE, TRUE),
              PerfOf(100000, 10, 0, 7, 0, 3, 0, FALSE, "no-store"), SecIdeal,
              LhOf(5000, 300, 600, 2000)),
     Response(200, FALSE, SeoIdeal, PerfHeavy, SecIdeal, <<>>),
     NotFound}

\* Sites audited with a PageSpeed API key: the lookup returns a record, or null,
\* or the page itself cannot be fetched.
PageSpeedResponses ==
    {Response(200, FALSE, SeoIdeal, PerfIdeal, SecIdeal, LhGood),
     Response(200, FALSE, SeoIdeal, PerfIdeal, SecIdeal, <<>>),
     NetworkError}

\* Sites with every kind of fetch failure, lasting or transient.
FailingResponses ==
    {Response(200, FALSE, SeoIdeal, PerfIdeal, SecIdeal, <<>>),
     NotFound,
     NetworkError,
     TransientError}

\* Sites whose REST probes and page HTML differ in every way the modernization
\* collector can tell apart.
AllProbes ==
    {ProbesOf(rest, posts, pages) :
        rest \in BOOLEAN, posts \in BOOLEAN, pages \in BOOLEAN}
ModernizationResponses ==
    {WithBody(Response(200, FALSE, SeoIdeal, PerfIdeal, SecIdeal, <<>>), body) :
        body \in Bodies}
    \cup {NotFound}

\* URLs looked up directly: two pages and a page whose URL ends in "-mobile".
LookupUrls == {<<"/">>, <<"/about">>, <<"/about", "-", "mobile">>}
\* What the PageSpeed API answers: a record, or a failure.
LookupAnswers == {<<>>, LhGood, LhOf(3000, 150, 300, 1000)}

CategoryOfHtml == {"excellent", "good", "fair", "poor"}
CategoryOfScripts == {"excellent", "good", "heavy"}
CategoryOfImages == {"excellent", "good", "poor"}
CategoryOfCaching == {"excellent", "partial", "none"}
VitalStatuses == {"good", "needs-improvement", "poor"}
CoreWebVitalsValues ==
    {<<>>} \cup {<<v>> : v \in [lcpStatus : VitalStatuses, clsStatus : VitalStatuses,
                                inpStatus : VitalStatuses, ttfbStatus : VitalStatuses]}

PerformanceAnalyses ==
    [htmlSizeCategory : CategoryOfHtml, scriptLoadCategory : CategoryOfScripts,
     imageOptimization : CategoryOfImages, caching : CategoryOfCaching,
     coreWebVitals : CoreWebVitalsValues, issues : {<<>>}]
SeoAnalyses ==
    [titleQuality : {"excellent", "good", "missing"},
     metaDescriptionQuality : {"excellent", "good", "missing"},
     h1Quality : {"excellent", "issues", "missing"},
     hasCanonical : BOOLEAN, hasRobotsTxt : BOOLEAN, hasSitemap : BOOLEAN,
     issues : {<<>>}]
SecurityAnalyses ==
    [httpsStatus : {"secure", "insecure"},
     headersCoverage : {"excellent", "partial", "none"},
     versionExposure : {"hidden", "exposed"},
     overallPosture : {"strong", "moderate", "weak"}, issues : {<<>>}]
ModernizationAnalyses ==
    [restApiStatus : {"full", "partial", "none"},
     permalinkModernity : {"modern", "mixed", "legacy"},
     cdnUsage : {"yes", "partial", "no"},
     headlessReadiness : {"ready", "needs-work", "not-ready"}, issues : {<<>>}]

BestPerformance ==
    [htmlSizeCategory |-> "excellent", scriptLoadCategory |-> "excellent",
     imageOptimization |-> "excellent", caching |-> "excellent",
     coreWebVitals |-> <<>>, issues |-> <<>>]
WorstPerformance ==
    [htmlSizeCategory |-> "poor", scriptLoadCategory |-> "heavy",
     imageOptimization |-> "poor", caching |-> "none",
     coreWebVitals |-> <<>>, issues |-> <<>>]
BestSeo ==
    [titleQuality |-> "excellent", metaDescriptionQuality |-> "excellent",
     h1Quality |-> "excellent", hasCanonical |-> TRUE, hasRobotsTxt |-> TRUE,
     hasSitemap |-> TRUE, issues |-> <<>>]
WorstSeo ==
    [titleQuality |-> "missing", metaDescriptionQuality |-> "missing",
     h1Quality |-> "missing", hasCanonical |-> FALSE, hasRobotsTxt |-> FALSE,
     hasSitemap |-> FALSE, issues |-> <<>>]
BestSecurity ==
    [httpsStatus |-> "secure", headersCoverage |-> "excellent",
     versionExposure |-> "hidden", overallPosture |-> "strong", issues |-> <<>>]
WorstSecurity ==
    [httpsStatus |-> "insecure", headersCoverage |-> "none",
     versionExposure |-> "exposed", overallPosture |-> "weak", issues |-> <<>>]
BestModernization ==
    [restApiStatus |-> "full", permalinkModernity |-> "modern", cdnUsage |-> "yes",
     headlessReadiness |-> "ready", issues |-> <<>>]
WorstModernization ==
    [restApiStatus |-> "none", permalinkModernity |-> "legacy", cdnUsage |-> "no",
     headlessReadiness |-> "not-ready", issues |-> <<>>]

\* Every in-range analysis of one category, with the best or the worst analysis of
\* each other category.
ScorerArguments ==
    [performance : PerformanceAnalyses, seo : {BestSeo, WorstSeo},
     security : {BestSecurity, WorstSecurity},
     modernization : {BestModernization, WorstModernization}]
    \cup [performance : {BestPerformance, WorstPerformance}, seo : SeoAnalyses,
          security : {BestSecurity, WorstSecurity},
          modernization : {BestModernization, WorstModernization}]
    \cup [performance : {BestPerformance, WorstPerformance}, seo : {BestSeo, WorstSeo},
          security : SecurityAnalyses,
          modernization : {BestModernization, WorstModernization}]
    \cup [performance : {BestPerformance, WorstPerformance}, seo : {BestSeo, WorstSeo},
          security : {BestSecurity, WorstSecurity},
          modernization : ModernizationAnalyses]

\* Arguments with one classification outside its enumerated set, the other
\* analyses being the best or the worst of their category.
MalformedArguments ==
    LET base == [performance : {BestPerformance, WorstPerformance},
                 seo : {BestSeo, WorstSeo},
                 security : {BestSecurity, WorstSecurity},
                 modernization : {BestModernization, WorstModernization}]
    IN  UNION {{[a EXCEPT !.performance.htmlSizeCategory = "unknown"],
                [a EXCEPT !.performance.scriptLoadCategory = "unknown"],
                [a EXCEPT !.performance.imageOptimization = "unknown"],
                [a EXCEPT !.performance.caching = "unknown"],
                [a EXCEPT !.seo.titleQuality = "unknown"],
                [a EXCEPT !.seo.metaDescriptionQuality = "unknown"],
                [a EXCEPT !.seo.h1Quality = "unknown"],
                [a EXCEPT !.security.httpsStatus = "unknown"],
                [a EXCEPT !.security.headersCoverage = "unknown"],
                [a EXCEPT !.security.versionExposure = "unknown"],
                [a EXCEPT !.modernization.restApiStatus = "unknown"],
                [a EXCEPT !.modernization.permalinkModernity = "unknown"],
                [a EXCEPT !.modernization.cdnUsage = "unknown"]} : a \in base}

----------------------------------------------------------------------------
(* Direct calls of the PageSpeed collector within one process *)

CallCollectLighthouseData ==
    /\ Len(lookups) < MaxLookups
    /\ \E url \in LookupUrls, strategy \in {"mobile", "desktop"},
          answer \in LookupAnswers :
          LET lookup == collectLighthouseData(cache, url, strategy, answer)
          IN  /\ cache' = lookup.cache
              /\ lookups' = Append(lookups, lookup.call)
    /\ UNCHANGED <<auditVars, scorerVars, ratingVars, callVars>>

\* clearCache()
CallClearCache ==
    /\ Len(lookups) < MaxLookups
    /\ cache' = {}
    /\ lookups' = Append(lookups, [kind |-> "clear", url |-> <<>>, strategy |-> "",
                                   requested |-> FALSE, answer |-> <<>>,
                                   result |-> <<>>])
    /\ UNCHANGED <<auditVars, scorerVars, ratingVars, callVars>>

NextLighthouse ==
    \/ CallCollectLighthouseData
    \/ CallClearCache

----------------------------------------------------------------------------
(* Direct calls of selectTopPages *)

CallSelectTopPages ==
    /\ callArgs # <<>>
    /\ callArgs[1].fn = "selectTopPages"
    /\ callResult = <<>>
    /\ callResult' = <<selectTopPages(callArgs[1].urls, callArgs[1].maxPages)>>
    /\ UNCHANGED <<callArgs, auditVars, scorerVars, ratingVars, lighthouseVars>>

NextSitemap == CallSelectTopPages

\* Sitemaps: three locs, two of them the site root; a priority or none; and either
\* no lastmod at all or a lastmod on every entry.
SitemapLocs == {"https://x/", "https://x/?lang=en", "https://x/about"}
SitemapPriorities == {<<>>, <<3>>, <<8>>}
SitemapUrlsWithout == [loc : SitemapLocs, priority : SitemapPriorities, lastmod : {<<>>}]
SitemapUrlsWith == [loc : SitemapLocs, priority : SitemapPriorities, lastmod : {<<1>>, <<2>>}]
Sitemaps ==
    UNION {[1..n -> SitemapUrlsWithout] \cup [1..n -> SitemapUrlsWith] :
              n \in 0..MaxSitemapUrls}

----------------------------------------------------------------------------
(* Direct calls of the analyzers *)

CallAnalyzeSecurity ==
    /\ callArgs # <<>>
    /\ callArgs[1].fn = "analyzeSecurity"
    /\ callResult = <<>>
    /\ callResult' = <<analyzeSecurity(callArgs[1].secData)>>
    /\ UNCHANGED <<callArgs, auditVars, scorerVars, ratingVars, lighthouseVars>>

CallAnalyzeModernization ==
    /\ callArgs # <<>>
    /\ callArgs[1].fn = "analyzeModernization"
    /\ callResult = <<>>
    /\ callResult' = <<analyzeModernization(callArgs[1].modData)>>
    /\ UNCHANGED <<callArgs, auditVars, scorerVars, ratingVars, lighthouseVars>>

CallAnalyzePerformance ==
    /\ callArgs # <<>>
    /\ callArgs[1].fn = "analyzePerformance"
    /\ callResult = <<>>
    /\ callResult' = <<analyzePerformance(callArgs[1].perfData, callArgs[1].lighthouseData)>>
    /\ UNCHANGED <<callArgs, auditVars, scorerVars, ratingVars, lighthouseVars>>

NextAnalyzers ==
    \/ CallAnalyzeSecurity
    \/ CallAnalyzeModernization
    \/ CallAnalyzePerformance

\* Every SecurityResult collectSecurityData can build.
SecurityInputs ==
    {SecOf(https, xcto, xfo, csp, exposed) :
        https \in BOOLEAN, xcto \in BOOLEAN, xfo \in BOOLEAN, csp \in BOOLEAN,
        exposed \in BOOLEAN}
\* What collectModernizationData builds from every probe outcome and kind of page.
ModernizationInputs ==
    {collectModernizationData(probes, body) : probes \in AllProbes, body \in Bodies}
\* Pages either side of each HTML size threshold, light or heavy on scripts, with or
\* without a Cache-Control header.
HtmlSizes == {0, 99999, 100000, 199999, 200000, 299999, 300000, 1000000}
PerformanceInputs ==
    {PerfOf(size, scripts, 0, 1, 1, 1, 1, hasCache, IF hasCache THEN "private" ELSE "") :
        size \in HtmlSizes, scripts \in {5, 25}, hasCache \in BOOLEAN}

----------------------------------------------------------------------------
(* Specifications *)

ScorerIdle ==
    /\ scorerArgs = <<>>
    /\ scorerResult = <<>>
    /\ ratingArg = -1
    /\ ratingResult = ""

CallIdle ==
    /\ callArgs = <<>>
    /\ callResult = <<>>

\* A fresh process: the module-level cache is empty.
LighthouseIdle ==
    /\ cache = {}
    /\ lookups = <<>>

AuditIdle ==
    /\ config = [pages |-> <<>>, psApiKey |-> FALSE, psStrategy |-> "mobile"]
    /\ site = [responses |-> <<>>, isWordPress |-> TRUE, modernization |-> ProbesIdeal]
    /\ pc = "idle"
    /\ pageIdx = 1
    /\ pageResults = <<>>
    /\ wpDetection = <<>>
    /\ modernizationResult = <<>>
    /\ audit = <<>>
    /\ reportWritten = FALSE
    /\ exitCode = -1

\* runAudit is entered with a page list of at most maxLen paths; the site's answers
\* are drawn from the given sets.
InitAudit(maxLen, paths, responses, keys, detections, probes) ==
    /\ \E n \in 0..maxLen :
          /\ config \in [pages : [1..n -> paths], psApiKey : keys,
                          psStrategy : {"mobile"}]
          /\ site \in [responses : [1..n -> responses], isWordPress : detections,
                       modernization : probes]
    /\ pc = "pages"
    /\ pageIdx = 1
    /\ pageResults = <<>>
    /\ wpDetection = <<>>
    /\ modernizationResult = <<>>
    /\ audit = <<>>
    /\ reportWritten = FALSE
    /\ exitCode = -1
    /\ ScorerIdle
    /\ LighthouseIdle
    /\ CallIdle

Init == InitAudit(MaxPages, Paths, MixedResponses, BOOLEAN, BOOLEAN, {ProbesIdeal, ProbesNone})
Next == NextAudit
Spec == Init /\ [][Next]_vars

InitSeo == InitAudit(MaxPages, Paths, SeoResponses, {FALSE}, {TRUE}, {ProbesIdeal})
SpecSeo == InitSeo /\ [][NextAudit]_vars

InitSecurity ==
    InitAudit(MaxPages, {"/", "/about"}, SecurityResponses, {FALSE}, {TRUE}, {ProbesIdeal})
SpecSecurity == InitSecurity /\ [][NextAudit]_vars

InitPerformance ==
    InitAudit(MaxPages, {"/", "/about"}, PerformanceResponses, BOOLEAN, {TRUE},
              {ProbesIdeal, ProbesPartial})
SpecPerformance == InitPerformance /\ [][NextAudit]_vars

InitPageSpeed ==
    InitAudit(MaxLookupPages, {"/", "/about"}, PageSpeedResponses, {TRUE}, {TRUE},
              {ProbesIdeal})
SpecPageSpeed == InitPageSpeed /\ [][NextAudit]_vars

InitFetch ==
    InitAudit(MaxPages, {"/", "/about"}, FailingResponses, {FALSE}, {TRUE},
              {ProbesIdeal})
SpecFetch == InitFetch /\ [][NextAudit]_vars

InitModernization ==
    InitAudit(MaxPages, {"/", "/about"}, ModernizationResponses, {FALSE}, {TRUE},
              AllProbes)
SpecModernization == InitModernization /\ [][NextAudit]_vars

InitScore ==
    /\ AuditIdle
    /\ \/ /\ scorerArgs \in {<<a>> : a \in ScorerArguments}
          /\ ratingArg = -1
       \/ /\ scorerArgs = <<>>
          /\ ratingArg \in 0..MaxScoreArg
    /\ scorerResult = <<>>
    /\ ratingResult = ""
    /\ LighthouseIdle
    /\ CallIdle
SpecScore == InitScore /\ [][NextScore]_vars

\* The PageSpeed collector called on its own, from a fresh process.
InitLighthouse ==
    /\ AuditIdle
    /\ ScorerIdle
    /\ LighthouseIdle
    /\ CallIdle
SpecLighthouse == InitLighthouse /\ [][NextLighthouse]_vars

\* selectTopPages called on its own.
InitSitemap ==
    /\ AuditIdle
    /\ ScorerIdle
    /\ LighthouseIdle
    /\ callArgs \in {<<[fn |-> "selectTopPages", urls |-> urls, maxPages |-> m]>> :
                        urls \in Sitemaps, m \in 1..MaxSitemapUrls}
    /\ callResult = <<>>
SpecSitemap == InitSitemap /\ [][NextSitemap]_vars

\* The analyzers called on their own.
InitAnalyzers ==
    /\ AuditIdle
    /\ ScorerIdle
    /\ LighthouseIdle
    /\ callArgs \in
          {<<[fn |-> "analyzeSecurity", secData |-> s]>> : s \in SecurityInputs}
          \cup {<<[fn |-> "analyzeModernization", modData |-> m]>> :
                    m \in ModernizationInputs}
          \cup {<<[fn |-> "analyzePerformance", perfData |-> p, lighthouseData |-> <<>>]>> :
                    p \in PerformanceInputs}
    /\ callResult = <<>>
SpecAnalyzers == InitAnalyzers /\ [][NextAnalyzers]_vars

\* The scorer called by a caller that breaks the type contract.
InitMalformed ==
    /\ AuditIdle
    /\ \/ /\ scorerArgs \in {<<a>> : a \in MalformedArguments}
          /\ ratingArg = -1
       \/ /\ scorerArgs = <<>>
          /\ ratingArg \in 0..MaxScoreArg
    /\ scorerResult = <<>>
    /\ ratingResult = ""
    /\ LighthouseIdle
    /\ CallIdle
SpecMalformed == InitMalformed /\ [][NextScore]_vars

----------------------------------------------------------------------------
(* Properties *)

Finished == audit # <<>>

\* Points of the Core Web Vitals bonus table (SCORING_RULES.md 1.6).
vitalBonus(status, best) ==
    IF status = "good" THEN best ELSE IF status = "needs-improvement" THEN 1 ELSE 0
cwvBonus(cwv) ==
    vitalBonus(cwv.lcpStatus, 3) + vitalBonus(cwv.clsStatus, 3)
    + vitalBonus(cwv.inpStatus, 3) + vitalBonus(cwv.ttfbStatus, 2)
AllVitalsGood(cwv) ==
    /\ cwv.lcpStatus = "good"
    /\ cwv.clsStatus = "good"
    /\ cwv.inpStatus = "good"
    /\ cwv.ttfbStatus = "good"

\* C1: when field-performance data is present the performance sub-score is the base
\* score plus the Core Web Vitals bonus (+3/+1/+0 for LCP, CLS, INP, +2/+1/+0 for
\* TTFB); a perfect base with four good metrics scores 41, and 111 overall when the
\* other three categories are perfect.
C1_PerformanceIncludesCwvBonus ==
    (Finished /\ audit[1].analyses.performance.coreWebVitals # <<>>) =>
        LET analysis == audit[1].analyses.performance
            scores == audit[1].scores
            cwv == analysis.coreWebVitals[1]
            base == scorePerformance([analysis EXCEPT !.coreWebVitals = <<>>])
        IN  /\ scores.performance = base + cwvBonus(cwv)
            /\ (base = 30 /\ AllVitalsGood(cwv)) => scores.performance = 41
            /\ (base = 30 /\ AllVitalsGood(cwv) /\ scores.seo = 25
                /\ scores.security = 25 /\ scores.modernization = 20)
                   => scores.overall = 111

\* The bucket the coverage thresholds give: >= 0.95, >= 0.7, below.
coverageBucket(coverage, middle) ==
    IF 100 * coverage.num >= 95 * coverage.den THEN "excellent"
    ELSE IF 10 * coverage.num >= 7 * coverage.den THEN middle
    ELSE "missing"

\* C2: the quality bucket of title, meta description and exactly-one-H1 is decided by
\* the weighted coverage alone: >= 0.95 excellent, >= 0.7 good (for H1 the middle
\* bucket of its type, "issues"), below 0.7 missing.
C2_BucketFollowsCoverage ==
    Finished =>
        LET seo == audit[1].analyses.seo
            agg == audit[1].aggregated.seo._aggregation
        IN  /\ seo.titleQuality = coverageBucket(agg.titleCoverage, "good")
            /\ seo.metaDescriptionQuality = coverageBucket(agg.metaCoverage, "good")
            /\ seo.h1Quality = coverageBucket(agg.h1Coverage, "issues")

\* The classification fields of the four analyses, without the issue lists and
\* without the Core Web Vitals block that v0.1.0 does not know.
classifications(analyses) ==
    [htmlSizeCategory |-> analyses.performance.htmlSizeCategory,
     scriptLoadCategory |-> analyses.performance.scriptLoadCategory,
     imageOptimization |-> analyses.performance.imageOptimization,
     caching |-> analyses.performance.caching,
     titleQuality |-> analyses.seo.titleQuality,
     metaDescriptionQuality |-> analyses.seo.metaDescriptionQuality,
     h1Quality |-> analyses.seo.h1Quality,
     hasCanonical |-> analyses.seo.hasCanonical,
     hasRobotsTxt |-> analyses.seo.hasRobotsTxt,
     hasSitemap |-> analyses.seo.hasSitemap,
     httpsStatus |-> analyses.security.httpsStatus,
     headersCoverage |-> analyses.security.headersCoverage,
     versionExposure |-> analyses.security.versionExposure,
     overallPosture |-> analyses.security.overallPosture,
     restApiStatus |-> analyses.modernization.restApiStatus,
     permalinkModernity |-> analyses.modernization.permalinkModernity,
     cdnUsage |-> analyses.modernization.cdnUsage,
     headlessReadiness |-> analyses.modernization.headlessReadiness]

\* C3: with exactly one fetched page, analysing the aggregated observation gives the
\* classifications that analysing the page's raw observation gives.
C3_SinglePageAgreesWithRawPage ==
    (Finished /\ Len(pageResults) = 1) =>
        classifications(audit[1].analyses)
            = classifications(analyzeFirstPage(pageResults, modernizationResult[1]))

\* Sum of the claimed weights (2 for path "/" or "", 1 otherwise) of the pages in idx.
claimedWeight(idx) ==
    LET home == {i \in idx : pageResults[i].path \in {"/", ""}}
    IN  2 * Cardinality(home) + Cardinality(idx \ home)

\* coverage is the claimed quotient for the pages of the set with
coverageIs(coverage, with) ==
    LET all == 1..Len(pageResults)
    IN  /\ coverage.num = claimedWeight(with)
        /\ coverage.den = claimedWeight(all)
        /\ coverage.den > 0
        /\ 0 <= coverage.num
        /\ coverage.num <= coverage.den
        /\ (coverage.num > 0 <=> with # {})

claimHasTitle == {i \in 1..Len(pageResults) : pageResults[i].seoResult.title > 0}
claimHasMeta == {i \in 1..Len(pageResults) : pageResults[i].seoResult.metaDescription > 0}
claimHasCanonical == {i \in 1..Len(pageResults) : pageResults[i].seoResult.canonicalUrl}
claimHasOneH1 == {i \in 1..Len(pageResults) : pageResults[i].seoResult.h1Tags = 1}

\* Homepage and a second page with a title, a third page without.
TitleExample ==
    /\ Len(pageResults) = 3
    /\ pageResults[1].path = "/"
    /\ pageResults[2].path \notin {"/", ""}
    /\ pageResults[3].path \notin {"/", ""}
    /\ 1 \in claimHasTitle
    /\ 2 \in claimHasTitle
    /\ 3 \notin claimHasTitle

\* C4: for each feature the weighted coverage is (sum of the weights of the pages
\* having it) / (sum of all weights), with weight 2 for path "/" or "" and 1
\* otherwise; it lies in [0,1], is positive iff some page has the feature, and is
\* 3/4 in the title example.
C4_WeightedCoverage ==
    Finished =>
        LET agg == audit[1].aggregated.seo._aggregation
        IN  /\ coverageIs(agg.titleCoverage, claimHasTitle)
            /\ coverageIs(agg.metaCoverage, claimHasMeta)
            /\ coverageIs(agg.canonicalCoverage, claimHasCanonical)
            /\ coverageIs(agg.h1Coverage, claimHasOneH1)
            /\ TitleExample =>
                   4 * agg.titleCoverage.num = 3 * agg.titleCoverage.den

C4_Witness == Finished /\ TitleExample /\ pageResults[2].path = "/about"

ratingBand(rating, s) ==
    /\ rating \in {"healthy", "needs-optimization", "needs-modernization", "legacy"}
    /\ rating = "healthy" <=> s >= 80
    /\ rating = "needs-optimization" <=> (60 <= s /\ s <= 79)
    /\ rating = "needs-modernization" <=> (40 <= s /\ s <= 59)
    /\ rating = "legacy" <=> s <= 39

\* C5: the rating of an overall score s is healthy iff s >= 80, needs-optimization
\* iff 60 <= s <= 79, needs-modernization iff 40 <= s <= 59, legacy iff s <= 39, and
\* the rating calculateScores returns is the band of the overall it returns.
C5_RatingBands ==
    /\ ratingResult # "" => ratingBand(ratingResult, ratingArg)
    /\ scorerResult # <<>> => ratingBand(scorerResult[1].rating, scorerResult[1].overall)

C5_Witness == ratingResult = "healthy" /\ ratingArg = 80

\* C6: calculateScores returns 0 <= performance <= 41 (<= 30 without a Core Web
\* Vitals block), 0 <= seo <= 25, 0 <= security <= 25, 0 <= modernization <= 20, and
\* overall is the sum of the four returned sub-scores.
C6_SubScoreRanges ==
    scorerResult # <<>> =>
        LET r == scorerResult[1]
        IN  /\ 0 <= r.performance /\ r.performance <= 41
            /\ scorerArgs[1].performance.coreWebVitals = <<>> => r.performance <= 30
            /\ 0 <= r.seo /\ r.seo <= 25
            /\ 0 <= r.security /\ r.security <= 25
            /\ 0 <= r.modernization /\ r.modernization <= 20
            /\ r.overall = r.performance + r.seo + r.security + r.modernization

C6_Witness ==
    /\ scorerResult # <<>>
    /\ scorerResult[1].overall = 100
    /\ scorerResult[1].seo = 25

\* The single page and the site probes are perfect in every respect the claim lists;
\* the image mix is judged apart.
perfectRun ==
    /\ Len(pageResults) = 1
    /\ LET p == pageResults[1]
           m == modernizationResult[1]
       IN  /\ p.lighthouseData = <<>>
           /\ p.securityResult.isHttps
           /\ p.securityResult.hasXContentTypeOptions
           /\ p.securityResult.hasXFrameOptions
           /\ p.securityResult.hasContentSecurityPolicy
           /\ ~p.securityResult.exposedWpVersion
           /\ 30 <= p.seoResult.title /\ p.seoResult.title <= 60
           /\ 120 <= p.seoResult.metaDescription /\ p.seoResult.metaDescription <= 160
           /\ p.seoResult.canonicalUrl
           /\ p.seoResult.h1Tags = 1
           /\ p.seoResult.hasRobotsTxt
           /\ p.seoResult.hasSitemap
           /\ p.performanceResult.htmlSizeBytes < 100000
           /\ p.performanceResult.numScripts <= 9
           /\ p.performanceResult.hasCacheControl
           /\ p.performanceResult.cacheControlValue # ""
           /\ m.hasRestApi /\ m.hasPostsEndpoint /\ m.hasPagesEndpoint
           /\ m.hasPrettyPermalinks
           /\ m.usesCdn /\ m.cdnDomains > 0

scoresCeiling ==
    /\ audit[1].scores.performance = 30
    /\ audit[1].scores.seo = 25
    /\ audit[1].scores.security = 25
    /\ audit[1].scores.modernization = 20
    /\ audit[1].scores.overall = 100
    /\ audit[1].scores.rating = "healthy"

modernImages ==
    LET f == pageResults[1].performanceResult.imageFormats IN f.webp + f.avif

totalImages ==
    LET f == pageResults[1].performanceResult.imageFormats
    IN  f.jpeg + f.png + f.webp + f.avif + f.svg + f.gif

atLeast70Percent == totalImages = 0 \/ 10 * modernImages >= 7 * totalImages
above70Percent == totalImages = 0 \/ 10 * modernImages > 7 * totalImages

\* C7 as stated: a maximally perfect single-page input without field-performance
\* data, with any modern-image ratio >= 70%, scores 30+25+25+20 = 100, healthy.
C7_PerfectScores100 ==
    (Finished /\ perfectRun /\ atLeast70Percent) => scoresCeiling

\* C7 amended: the same with a modern-image ratio above 70% (or no image at all).
C7_PerfectScores100Above70 ==
    (Finished /\ perfectRun /\ above70Percent) => scoresCeiling

C7_Witness ==
    /\ Finished
    /\ perfectRun /\ above70Percent
    /\ pageResults[1].performanceResult.imageFormats.jpeg > 0
    /\ pageResults[1].performanceResult.numScripts = 9

\* The request answered 200 without error.
requestOk(i) == site.responses[i].status = 200 /\ ~site.responses[i].error
\* The requests before the k-th that answered 200 without error.
okBefore(k) == {i \in 1..(k - 1) : requestOk(i)}
firstOk == CHOOSE i \in 1..Len(site.responses) : requestOk(i) /\ okBefore(i) = {}

\* C8: the security analysis and sub-score are those of the first successfully
\* fetched page, and replacing the security fields of any non-first page by any
\* other setting leaves both unchanged.
C8_SecurityFromFirstPageOnly ==
    Finished =>
        LET first == site.responses[firstOk].securityResult
            changed(i, sec) == [pageResults EXCEPT ![i].securityResult = sec]
            rerun(i, sec) == buildAuditResult(changed(i, sec), wpDetection[1],
                                              modernizationResult[1])
        IN  /\ audit[1].analyses.security = analyzeSecurity(first)
            /\ audit[1].scores.security = scoreSecurity(analyzeSecurity(first))
            /\ pc = "report" =>
                  \A i \in 2..Len(pageResults) : \A sec \in SecuritySettings :
                      LET other == rerun(i, sec)
                      IN  /\ other.analyses.security = audit[1].analyses.security
                          /\ other.scores.security = audit[1].scores.security

C8_Witness ==
    /\ Finished
    /\ Len(pageResults) = 3
    /\ pageResults[1].securityResult = SecOf(TRUE, TRUE, FALSE, FALSE, FALSE)
    /\ pageResults[2].securityResult = SecIdeal
    /\ pageResults[3].securityResult = SecNone
    /\ audit[1].scores.security = 20

allRequestsFailed == \A i \in 1..Len(site.responses) : ~requestOk(i)

\* C9: when every requested page fails to fetch, the run ends with exit code 2
\* straight after the page loop: no detection, probe, aggregation, analysis or
\* scoring step runs, no result and no report exist; and every step after the loop
\* runs with at least one observation and a positive weight sum.
C9_AllFailedAborts ==
    /\ allRequestsFailed =>
          /\ pc \in {"pages", "exited"}
          /\ pc = "exited" => exitCode = 2
          /\ pageResults = <<>>
          /\ wpDetection = <<>>
          /\ modernizationResult = <<>>
          /\ audit = <<>>
          /\ ~reportWritten
    /\ pc \in {"detect", "modernization", "analyze", "report"} =>
          /\ Len(pageResults) >= 1
          /\ totalSeoWeight(pageResults) >= 1

C9_Witness ==
    /\ allRequestsFailed
    /\ Len(site.responses) = 3
    /\ site.responses[1].status = 404
    /\ site.responses[2].error
    /\ pc = "exited"
    /\ exitCode = 2

\* C10: the observation list is exactly the answers that came back 200 without
\* error, in input order; a failed page adds no weight to the SEO coverage, no term
\* to a performance mean, and is never the first page used for security.
C10_FailedPagesExcluded ==
    /\ pc = "pages" =>
          /\ Len(pageResults) = Cardinality(okBefore(pageIdx))
          /\ \A i \in okBefore(pageIdx) :
                LET p == pageResults[Cardinality(okBefore(i)) + 1]
                IN  /\ p.path = config.pages[i]
                    /\ p.httpResult.status = 200
                    /\ ~p.httpResult.error
                    /\ p.seoResult = site.responses[i].seoResult
                    /\ p.performanceResult = site.responses[i].performanceResult
                    /\ p.securityResult = site.responses[i].securityResult
    /\ Finished =>
          LET ok == okBefore(Len(site.responses) + 1)
              home == {i \in ok : config.pages[i] \in {"/", ""}}
              RECURSIVE htmlSum(_)
              htmlSum(S) ==
                  IF S = {} THEN 0
                  ELSE LET i == CHOOSE x \in S : TRUE
                       IN  site.responses[i].performanceResult.htmlSizeBytes
                           + htmlSum(S \ {i})
              agg == audit[1].aggregated
          IN  /\ Len(audit[1].pages) = Cardinality(ok)
              /\ agg.seo._aggregation.titleCoverage.den
                     = 2 * Cardinality(home) + Cardinality(ok \ home)
              /\ agg.seo._aggregation.totalPages = Cardinality(ok)
              /\ agg.performance.htmlSizeBytes
                     = (2 * htmlSum(ok) + Cardinality(ok)) \div (2 * Cardinality(ok))
              /\ agg.security = site.responses[firstOk].securityResult

C10_Witness ==
    /\ Finished
    /\ Len(site.responses) = 3
    /\ site.responses[1].status = 404
    /\ requestOk(2)
    /\ site.responses[3].error
    /\ Len(pageResults) = 1
    /\ pageResults[1].path = config.pages[2]

\* C11: a run whose WordPress detection finds no WordPress signal ends with exit
\* code 3; exit code 0 is returned only for a completed audit (result built, report
\* written) and 2 only when a fetch or write failure kept the audit from completing.
C11_NonWordPressExits3 ==
    pc = "exited" =>
        /\ (wpDetection # <<>> /\ ~wpDetection[1].isWordPress) => exitCode = 3
        /\ exitCode = 0 => (Finished /\ reportWritten)
        /\ exitCode = 2 => (pageResults = <<>> \/ ~reportWritten)

\* Indices of the observations that carry field-performance data.
withLighthouseData == {k \in 1..Len(pageResults) : pageResults[k].lighthouseData # <<>>}

\* C12: in a run with a PageSpeed API key, whatever the page list and the fetch
\* failures, at most 3 observations got a field-performance lookup (the homepage and
\* up to 2 other pages), and only observations among the first 3 successful ones
\* carry field-performance data.
C12_AtMostThreeLookups ==
    config.psApiKey =>
        /\ Cardinality(withLighthouseData) <= 3
        /\ \A k \in withLighthouseData : k <= 3

\* Indices of the homepage observations, the homepage being path "/" or "".
homepageObservations == {k \in 1..Len(pageResults) : pageResults[k].path \in {"/", ""}}

\* C13: the field-performance record handed to the performance analyzer is the
\* homepage observation's record (homepage: path "/" or "") whenever that observation
\* has one, otherwise the first observation's record, otherwise absent; it is one
\* page's record unchanged.
C13_LighthouseFromHomepage ==
    Finished =>
        LET handed == audit[1].aggregated.lighthouseData
            home == homepageObservations
            h == CHOOSE k \in home : \A j \in home : k <= j
        IN  /\ handed = IF home # {} /\ pageResults[h].lighthouseData # <<>>
                        THEN pageResults[h].lighthouseData
                        ELSE pageResults[1].lighthouseData
            /\ \/ handed = <<>>
               \/ \E k \in 1..Len(pageResults) : handed = pageResults[k].lighthouseData

\* C14: the modernization classification and score do not depend on the page list:
\* for the same site, a run whose first audited page has any other HTML yields the
\* same restApiStatus, permalinkModernity, cdnUsage and modernization sub-score.
C14_ModernizationIndependentOfPages ==
    Finished =>
        \A html \in Bodies :
            LET other == analyzeModernization(
                             collectModernizationData(site.modernization, html))
                this == audit[1].analyses.modernization
            IN  /\ other.restApiStatus = this.restApiStatus
                /\ other.permalinkModernity = this.permalinkModernity
                /\ other.cdnUsage = this.cdnUsage
                /\ scoreModernization(other) = audit[1].scores.modernization

\* Requests made so far that were answered 200, at once or on a second attempt.
okWithRetry == {i \in 1..(pageIdx - 1) : requestOk(i) \/ site.responses[i].secondAttempt}

\* C15: a page whose fetch fails is tried again before it is skipped, so a page whose
\* first request fails and whose next request would succeed yields an observation:
\* there is one observation for every requested page that answers 200 at once or on
\* a retry.
C15_TransientFailureRetried ==
    Len(pageResults) = Cardinality(okWithRetry)

\* The eleven counts of a PerformanceResult, by name.
performanceCounts(perf) ==
    [htmlSizeBytes |-> perf.htmlSizeBytes,
     numScripts |-> perf.numScripts,
     numStylesheets |-> perf.numStylesheets,
     blockingScripts |-> perf.blockingScripts,
     blockingStylesheets |-> perf.blockingStylesheets,
     jpeg |-> perf.imageFormats.jpeg,
     png |-> perf.imageFormats.png,
     webp |-> perf.imageFormats.webp,
     avif |-> perf.imageFormats.avif,
     svg |-> perf.imageFormats.svg,
     gif |-> perf.imageFormats.gif]

\* m is total / n rounded to the nearest integer, halves up: m - 1/2 <= total/n < m + 1/2
nearestHalfUp(m, total, n) ==
    /\ (2 * m - 1) * n <= 2 * total
    /\ 2 * total < (2 * m + 1) * n

\* C16: each aggregated performance count (HTML size, scripts, stylesheets, blocking
\* scripts, blocking stylesheets, the six image-format counts) is the arithmetic mean
\* of that count over all N observations rounded to the nearest integer, halves
\* rounding up, field by field; for N = 1 it is the page's own value.
C16_PerformanceMeans ==
    Finished =>
        LET n == Len(pageResults)
            aggregated == performanceCounts(audit[1].aggregated.performance)
            RECURSIVE totalOf(_, _)
            totalOf(field, k) ==
                IF k = 0 THEN 0
                ELSE performanceCounts(pageResults[k].performanceResult)[field]
                     + totalOf(field, k - 1)
        IN  \A field \in DOMAIN aggregated :
                /\ nearestHalfUp(aggregated[field], totalOf(field, n), n)
                /\ n = 1 => aggregated[field]
                            = performanceCounts(pageResults[1].performanceResult)[field]

\* Two pages with 2 and 5 stylesheets (mean 3.5), 0 and 3 SVG images (mean 1.5) and
\* 99999 and 150000 bytes of HTML (mean 124999.5).
C16_Witness ==
    /\ Finished
    /\ Len(pageResults) = 2
    /\ pageResults[1].performanceResult.numScripts = 9
    /\ pageResults[2].performanceResult.numScripts = 15
    /\ pageResults[1].performanceResult.numStylesheets = 2
    /\ pageResults[2].performanceResult.numStylesheets = 5
    /\ audit[1].aggregated.performance.numScripts = 12
    /\ audit[1].aggregated.performance.numStylesheets = 4
    /\ audit[1].aggregated.performance.htmlSizeBytes = 125000
    /\ audit[1].aggregated.performance.imageFormats.svg = 2

\* Indices of the observations whose Cache-Control value is not empty.
withCacheControlValue ==
    {k \in 1..Len(pageResults) : pageResults[k].performanceResult.cacheControlValue # ""}

\* C17: the aggregated hasCacheControl is true iff some observation has
\* hasCacheControl true, and the aggregated cacheControlValue is the value of the
\* first observation in input order whose value is not empty (absent if none),
\* whether or not that observation's own hasCacheControl is true.
C17_CachingAggregation ==
    Finished =>
        LET aggregated == audit[1].aggregated.performance
            with == withCacheControlValue
            first == CHOOSE k \in with : \A j \in with : k <= j
        IN  /\ aggregated.hasCacheControl
                   <=> \E k \in 1..Len(pageResults) :
                           pageResults[k].performanceResult.hasCacheControl
            /\ aggregated.cacheControlValue
                   = IF with = {} THEN ""
                     ELSE pageResults[first].performanceResult.cacheControlValue

\* No header on the first page, no-store on the second, a caching header on the third.
C17_Witness ==
    /\ Finished
    /\ Len(pageResults) = 3
    /\ pageResults[1].performanceResult.cacheControlValue = ""
    /\ pageResults[2].performanceResult.cacheControlValue = "no-store"
    /\ ~pageResults[2].performanceResult.hasCacheControl
    /\ pageResults[3].performanceResult.cacheControlValue = "public"
    /\ pageResults[3].performanceResult.hasCacheControl
    /\ audit[1].aggregated.performance.hasCacheControl
    /\ audit[1].aggregated.performance.cacheControlValue = "no-store"

\* The SEO point table of the claim.
seoPointTable ==
    [title |-> [excellent |-> 6, good |-> 4, missing |-> 0],
     meta |-> [excellent |-> 6, good |-> 4, missing |-> 0],
     h1 |-> [excellent |-> 5, issues |-> 2, missing |-> 0]]

modernizationPointTable ==
    [rest |-> [full |-> 6, partial |-> 3, none |-> 0],
     endpoints |-> [full |-> 5, partial |-> 2, none |-> 0],
     permalinks |-> [modern |-> 5, mixed |-> 2, legacy |-> 0],
     cdn |-> [yes |-> 4, partial |-> 2, no |-> 0]]

endpointsAvailable ==
    (IF modernizationResult[1].hasPostsEndpoint THEN 1 ELSE 0)
    + (IF modernizationResult[1].hasPagesEndpoint THEN 1 ELSE 0)

\* The content-endpoint term of the modernization sub-score: what is left of it
\* after the REST, permalink and CDN terms.
endpointPoints ==
    LET modernization == audit[1].analyses.modernization
    IN  audit[1].scores.modernization
        - modernizationPointTable.rest[modernization.restApiStatus]
        - modernizationPointTable.permalinks[modernization.permalinkModernity]
        - modernizationPointTable.cdn[modernization.cdnUsage]

\* C20: the content-endpoint points follow the availability of the endpoints: 5 when
\* both the posts and the pages endpoint answer, 2 or 3 when only one does, 0 when
\* neither does, even if the REST root itself answers.
C20_EndpointPointsFollowAvailability ==
    Finished =>
        CASE endpointsAvailable = 2 -> endpointPoints = 5
          [] endpointsAvailable = 1 -> endpointPoints \in {2, 3}
          [] OTHER -> endpointPoints = 0

\* Every classification of the arguments lies in its enumerated set.
wellFormedArguments ==
    /\ scorerArgs[1].performance \in PerformanceAnalyses
    /\ scorerArgs[1].seo \in SeoAnalyses
    /\ scorerArgs[1].security \in SecurityAnalyses
    /\ scorerArgs[1].modernization \in ModernizationAnalyses

\* C21: when a classification handed to the scorer lies outside its enumerated set,
\* the scorer fails and returns no ScoringResult; it never puts a point value in the
\* place of the unknown classification.
C21_MalformedClassificationFailsLoud ==
    (scorerArgs # <<>> /\ ~wellFormedArguments) => scorerResult = <<>>

\* The earlier lookups of the same url and strategy as call i that returned a record,
\* with no clearCache between them and call i.
earlierSuccess(i) ==
    {j \in 1..(i - 1) :
        /\ lookups[j].kind = "lookup"
        /\ lookups[j].url = lookups[i].url
        /\ lookups[j].strategy = lookups[i].strategy
        /\ lookups[j].result # <<>>
        /\ \A k \in (j + 1)..(i - 1) : lookups[k].kind # "clear"}

\* C22: within one process a lookup for (url, strategy) asks the API iff no earlier
\* lookup for the same (url, strategy) has succeeded since the last clearCache; a
\* lookup served from the cache returns the record of that earlier success
\* unchanged; a failed lookup returns null and is not cached; an entry of another
\* url or strategy is never returned.
C22_LookupCache ==
    /\ \A i \in 1..Len(lookups) :
          lookups[i].kind = "lookup" =>
              LET earlier == earlierSuccess(i)
                  first == CHOOSE j \in earlier : \A k \in earlier : j <= k
              IN  /\ lookups[i].requested <=> earlier = {}
                  /\ lookups[i].requested => lookups[i].result = lookups[i].answer
                  /\ ~lookups[i].requested =>
                        /\ lookups[first].requested
                        /\ lookups[i].result = lookups[first].answer
                        /\ lookups[i].result # <<>>
    /\ \A e \in cache :
          \E j \in 1..Len(lookups) :
              /\ lookups[j].kind = "lookup"
              /\ lookups[j].requested
              /\ lookups[j].answer = <<e.data>>
              /\ e.key = cacheKey(lookups[j].url, lookups[j].strategy)

\* A failed lookup, the same lookup again succeeding, a lookup of the same url with
\* the other strategy, and the first lookup once more, served from the cache.
C22_Witness ==
    /\ Len(lookups) = 4
    /\ \A i \in 1..4 : lookups[i].kind = "lookup" /\ lookups[i].url = <<"/about">>
    /\ lookups[1].strategy = "mobile" /\ lookups[1].requested
    /\ lookups[1].result = <<>>
    /\ lookups[2].strategy = "mobile" /\ lookups[2].requested
    /\ lookups[2].result = LhGood
    /\ lookups[3].strategy = "desktop" /\ lookups[3].requested
    /\ lookups[3].result = LhOf(3000, 150, 300, 1000)
    /\ lookups[4].strategy = "mobile" /\ ~lookups[4].requested
    /\ lookups[4].result = LhGood

\* The priorities the sitemap gives a loc (missing counts as 5 tenths).
prioritiesOf(urls, loc) == {priorityOf(urls[i]) : i \in {k \in 1..Len(urls) : urls[k].loc = loc}}

\* C23: for every sitemap and every maxPages >= 1, selectTopPages returns at most
\* maxPages URLs; a homepage URL (pathname "/" or "") is the first element whenever
\* the sitemap contains one; the remaining elements are in non-increasing priority
\* order (a missing priority counting as 0.5); and no URL is selected twice.
C23_SelectTopPages ==
    (callResult # <<>> /\ callArgs[1].fn = "selectTopPages") =>
        LET urls == callArgs[1].urls
            selected == callResult[1]
            rest == 2..Len(selected)
        IN  /\ Len(selected) <= callArgs[1].maxPages
            /\ (\E i \in 1..Len(urls) : isHomepageLoc(urls[i].loc)) =>
                  (selected # <<>> /\ isHomepageLoc(selected[1]))
            /\ \A i \in rest : \A j \in rest :
                  i < j => \E a \in prioritiesOf(urls, selected[i]) :
                               \E b \in prioritiesOf(urls, selected[j]) : a >= b
            /\ \A i \in 1..Len(selected) : \A j \in 1..Len(selected) :
                  i # j => selected[i] # selected[j]

\* Number of the three security headers present in a SecurityResult.
headersPresent(secData) ==
    (IF secData.hasXContentTypeOptions THEN 1 ELSE 0)
    + (IF secData.hasXFrameOptions THEN 1 ELSE 0)
    + (IF secData.hasContentSecurityPolicy THEN 1 ELSE 0)

\* The claim's condition for a strong posture, and for a weak one.
strongCondition(secData) ==
    secData.isHttps /\ headersPresent(secData) = 3 /\ ~secData.exposedWpVersion
weakCondition(secData) == ~secData.isHttps \/ headersPresent(secData) = 0

\* C24: for every SecurityResult, overallPosture is "strong" exactly when HTTPS is used,
\* all three headers are present and the version is hidden, "weak" exactly when HTTPS is
\* absent or no header is present, "moderate" otherwise; headersCoverage is "excellent"
\* for 3 headers, "partial" for 1 or 2, "none" for 0; and no input meets both the strong
\* and the weak condition.
C24_SecurityPostureCascade ==
    (callResult # <<>> /\ callArgs[1].fn = "analyzeSecurity") =>
        LET secData == callArgs[1].secData
            analysis == callResult[1]
        IN  /\ analysis.overallPosture = "strong" <=> strongCondition(secData)
            /\ analysis.overallPosture = "weak" <=> weakCondition(secData)
            /\ analysis.overallPosture = "moderate"
                  <=> (~strongCondition(secData) /\ ~weakCondition(secData))
            /\ analysis.headersCoverage
                  = (CASE headersPresent(secData) = 3 -> "excellent"
                       [] headersPresent(secData) \in {1, 2} -> "partial"
                       [] headersPresent(secData) = 0 -> "none")
            /\ ~(strongCondition(secData) /\ weakCondition(secData))

\* HTTPS with two of the three headers and a hidden version: moderate.
C24_Witness ==
    /\ callResult # <<>>
    /\ callArgs[1].fn = "analyzeSecurity"
    /\ callArgs[1].secData.isHttps
    /\ headersPresent(callArgs[1].secData) = 2
    /\ ~callArgs[1].secData.exposedWpVersion
    /\ callResult[1].overallPosture = "moderate"
    /\ callResult[1].headersCoverage = "partial"

\* Points of the permalink and CDN terms of the modernization sub-score.
permalinkAndCdnPoints(analysis) ==
    scoreModernization(analysis)
    - modernizationPointTable.rest[analysis.restApiStatus]
    - modernizationPointTable.endpoints[analysis.restApiStatus]

htmlSizeRank(category) ==
    CASE category = "excellent" -> 3
      [] category = "good" -> 2
      [] category = "fair" -> 1
      [] category = "poor" -> 0

\* The claim's step function.
htmlSizeStep(htmlSizeBytes) ==
    CASE htmlSizeBytes < 100000 -> "excellent"
      [] htmlSizeBytes >= 100000 /\ htmlSizeBytes < 200000 -> "good"
      [] htmlSizeBytes >= 200000 /\ htmlSizeBytes < 300000 -> "fair"
      [] htmlSizeBytes >= 300000 -> "poor"

\* C26: htmlSizeCategory is a monotone step function of htmlSizeBytes: excellent below
\* 100000, good below 200000, fair below 300000, poor from 300000 on, so that 99999,
\* 100000, 200000 and 300000 bytes are excellent, good, fair and poor; and a page that
\* differs only by a larger size never gets a better category or more performance points.
C26_HtmlSizeSteps ==
    (callResult # <<>> /\ callArgs[1].fn = "analyzePerformance") =>
        LET perfData == callArgs[1].perfData
            analysis == callResult[1]
        IN  /\ analysis.htmlSizeCategory = htmlSizeStep(perfData.htmlSizeBytes)
            /\ perfData.htmlSizeBytes = 99999 => analysis.htmlSizeCategory = "excellent"
            /\ perfData.htmlSizeBytes = 100000 => analysis.htmlSizeCategory = "good"
            /\ perfData.htmlSizeBytes = 200000 => analysis.htmlSizeCategory = "fair"
            /\ perfData.htmlSizeBytes = 300000 => analysis.htmlSizeCategory = "poor"
            /\ \A larger \in HtmlSizes :
                  larger >= perfData.htmlSizeBytes =>
                      LET other == analyzePerformance(
                                       [perfData EXCEPT !.htmlSizeBytes = larger], <<>>)
                      IN  /\ htmlSizeRank(other.htmlSizeCategory)
                                <= htmlSizeRank(analysis.htmlSizeCategory)
                          /\ scorePerformance(other) <= scorePerformance(analysis)

\* A page of exactly 200000 bytes is fair.
C26_Witness ==
    /\ callResult # <<>>
    /\ callArgs[1].fn = "analyzePerformance"
    /\ callArgs[1].perfData.htmlSizeBytes = 200000
    /\ callResult[1].htmlSizeCategory = "fair"

\* The orders of n observations that keep the first one in place.
reorderingsKeepingFirst(n) ==
    {order \in [1..n -> 1..n] :
        /\ order[1] = 1
        /\ \A i \in 1..n : \A j \in 1..n : i # j => order[i] # order[j]}

\* The ScoringResult of the run had the observations been made in another order.
scoresInOrder(order) ==
    buildAuditResult([i \in 1..Len(pageResults) |-> pageResults[order[i]]],
                     wpDetection[1], modernizationResult[1]).scores

\* C27: for two or more observations, every reordering that keeps the first observation
\* in place yields the same ScoringResult: the four sub-scores, the overall score and
\* the rating.
C27_ScoresIndependentOfLaterOrder ==
    (pc = "report" /\ Len(pageResults) >= 2) =>
        \A order \in reorderingsKeepingFirst(Len(pageResults)) :
            scoresInOrder(order) = audit[1].scores

\* A run with two different later observations whose scores would change had the second
\* observation come first.
C27_Witness ==
    /\ pc = "report"
    /\ Len(pageResults) >= 3
    /\ pageResults[2] # pageResults[3]
    /\ scoresInOrder([i \in 1..Len(pageResults) |->
                         IF i = 1 THEN 2 ELSE IF i = 2 THEN 1 ELSE i])
          # audit[1].scores

\* What collectPerformanceData guarantees of an observation: hasCacheControl is true
\* only for a non-empty header value other than no-store.
fromPerformanceCollector(perfData) ==
    perfData.hasCacheControl =>
        (perfData.cacheControlValue # "" /\ perfData.cacheControlValue # "no-store")

performancePointTable ==
    [html |-> [excellent |-> 6, good |-> 4, fair |-> 2, poor |-> 0],
     scripts |-> [excellent |-> 8, good |-> 5, heavy |-> 1],
     images |-> [excellent |-> 6, good |-> 3, poor |-> 0],
     caching |-> [excellent |-> 6, partial |-> 3, none |-> 0]]
securityPointTable ==
    [https |-> [secure |-> 5, insecure |-> 0],
     headers |-> [excellent |-> 10, partial |-> 5, none |-> 0],
     version |-> [hidden |-> 5, exposed |-> 0]]

\* The sums of the table values and flat baselines, before any clamp.
unclampedPoints(args) ==
    [performance |->
         performancePointTable.html[args.performance.htmlSizeCategory]
         + performancePointTable.scripts[args.performance.scriptLoadCategory]
         + performancePointTable.images[args.performance.imageOptimization]
         + performancePointTable.caching[args.performance.caching]
         + 4,
     seo |->
         seoPointTable.title[args.seo.titleQuality]
         + seoPointTable.meta[args.seo.metaDescriptionQuality]
         + seoPointTable.h1[args.seo.h1Quality]
         + (IF args.seo.hasCanonical THEN 4 ELSE 0)
         + (IF args.seo.hasRobotsTxt THEN 2 ELSE 0)
         + (IF args.seo.hasSitemap THEN 2 ELSE 0),
     security |->
         securityPointTable.https[args.security.httpsStatus]
         + securityPointTable.headers[args.security.headersCoverage]
         + securityPointTable.version[args.security.versionExposure]
         + 5,
     modernization |->
         modernizationPointTable.rest[args.modernization.restApiStatus]
         + modernizationPointTable.endpoints[args.modernization.restApiStatus]
         + modernizationPointTable.permalinks[args.modernization.permalinkModernity]
         + modernizationPointTable.cdn[args.modernization.cdnUsage]]

firstIssues(issues, n) == SubSeq(issues, 1, IF Len(issues) < n THEN Len(issues) ELSE n)

\* C30: topIssues has at most 5 entries, in fixed priority order: up to the first 2
\* security issues, then up to the first 2 performance issues, then the first SEO issue,
\* then the first modernization issue; the modernization issue is dropped exactly when
\* security, performance and SEO together already contribute 5 entries.
C30_TopIssuesOrder ==
    audit # <<>> =>
        LET analyses == audit[1].analyses
            before == firstIssues(analyses.security.issues, 2)
                      \o firstIssues(analyses.performance.issues, 2)
                      \o firstIssues(analyses.seo.issues, 1)
            last == firstIssues(analyses.modernization.issues, 1)
        IN  /\ Len(audit[1].topIssues) <= 5
            /\ audit[1].topIssues = (IF Len(before) = 5 THEN before ELSE before \o last)

\* Two security, two performance and one SEO issue leave no room for the modernization
\* issue the run also found.
C30_Witness ==
    /\ audit # <<>>
    /\ Len(audit[1].analyses.security.issues) >= 2
    /\ Len(audit[1].analyses.performance.issues) >= 2
    /\ Len(audit[1].analyses.seo.issues) >= 1
    /\ Len(audit[1].analyses.modernization.issues) >= 1
    /\ Len(audit[1].topIssues) = 5
    /\ audit[1].topIssues[5] = audit[1].analyses.seo.issues[1]

====
